---- MODULE Spec2Model ----
(***************************************************************************)
(* Model of arb-oppity: the liquidity regime check (check-liquidity.ts),   *)
(* the descriptive statistics (spread-stats.ts) and the scan / predict     *)
(* tool with its process-wide stats cache (scan-opportunities.ts).         *)
(*                                                                         *)
(* JavaScript numbers are modelled exactly where the code's arithmetic is  *)
(* rational: a number is a record [k, n, d] with k = "fin" for the         *)
(* rational n/d in lowest terms (d > 0), "nan" for NaN, "inf" / "ninf"     *)
(* for the infinities, and "sqrt" / "nsqrt" for the irrational numbers      *)
(* sqrt(n/d) and -sqrt(n/d).                                               *)
(***************************************************************************)
EXTENDS Integers, Sequences, FiniteSets, TLC

(***************************************************************************)
(* State                                                                   *)
(*  - one checkLiquidity call: its position, input, fetched data, result   *)
(*  - callers of spread-stats.ts: a sample and its stats, a list of data   *)
(*    points and its tables, one computeZScore call                        *)
(*  - scan-opportunities.ts: the registry, the stats cache, the predict    *)
(*    calls in flight and one scanNow call                                 *)
(*  - analyze-arb.ts: one analyzeArb call                                  *)
(***************************************************************************)
VARIABLES liqPc, liqIn, liqBook, liqStats, liqOut, liqFetches

VARIABLES samples, statsOut, points, hourly, daily, zCall, weekendWeekday

VARIABLES MARKET_PAIRS, statsCache, pred, scanPc, scanIn, scanIdx, scanBooks,
          scanOpps, scanLog, scanOut, scanPrev

liqVars == <<liqPc, liqIn, liqBook, liqStats, liqOut, liqFetches>>

statsVars == <<samples, statsOut, points, hourly, daily, zCall, weekendWeekday>>

scanVars == <<MARKET_PAIRS, statsCache, pred, scanPc, scanIn, scanIdx, scanBooks,
              scanOpps, scanLog, scanOut, scanPrev>>

VARIABLES arbPc, arbIn, arbBooks, arbOut

arbVars == <<arbPc, arbIn, arbBooks, arbOut>>

VARIABLES analysisData

runVars == <<analysisData>>

VARIABLES kalshiCall

clientVars == <<kalshiCall>>

vars == <<liqVars, statsVars, scanVars, arbVars, runVars, clientVars>>

(***************************************************************************)
(* JavaScript number arithmetic                                            *)
(***************************************************************************)
Abs(x) == IF x < 0 THEN -x ELSE x

RECURSIVE GCD(_, _)
GCD(a, b) == IF b = 0 THEN a ELSE GCD(b, a % b)

Fin(n, d) ==
  LET g == GCD(Abs(n), d)
  IN  [k |-> "fin", n |-> n \div g, d |-> d \div g]

NaN == [k |-> "nan", n |-> 0, d |-> 1]

PosInf == [k |-> "inf", n |-> 0, d |-> 1]

NegInf == [k |-> "ninf", n |-> 0, d |-> 1]

Zero == Fin(0, 1)

\* a / b for two integers, with IEEE results for a zero divisor
JsDiv(a, b) ==
  IF b = 0 THEN (IF a > 0 THEN PosInf ELSE IF a < 0 THEN NegInf ELSE NaN)
  ELSE IF b > 0 THEN Fin(a, b) ELSE Fin(-a, -b)

\* x >= qn/qd and x <= qn/qd (qd > 0); every comparison with NaN is false, and
\* an irrational sqrt(n/d) is compared through its square
NumGE(x, qn, qd) ==
  CASE x.k = "fin"   -> x.n * qd >= qn * x.d
    [] x.k = "inf"   -> TRUE
    [] x.k = "sqrt"  -> qn <= 0 \/ x.n * qd * qd >= qn * qn * x.d
    [] x.k = "nsqrt" -> qn < 0 /\ x.n * qd * qd <= qn * qn * x.d
    [] OTHER         -> FALSE

NumLE(x, qn, qd) ==
  CASE x.k = "fin"   -> x.n * qd <= qn * x.d
    [] x.k = "ninf"  -> TRUE
    [] x.k = "sqrt"  -> qn > 0 /\ x.n * qd * qd <= qn * qn * x.d
    [] x.k = "nsqrt" -> qn >= 0 \/ x.n * qd * qd >= qn * qn * x.d
    [] OTHER         -> FALSE

NumGT(x, qn, qd) ==
  CASE x.k = "fin"   -> x.n * qd > qn * x.d
    [] x.k = "inf"   -> TRUE
    [] x.k \in {"sqrt", "nsqrt"} -> NumGE(x, qn, qd)
    [] OTHER         -> FALSE

IsFinite(x) == x.k = "fin"

\* a <= b for two numbers; false when either is NaN or irrational
NumLEq(a, b) ==
  CASE a.k = "fin" /\ b.k = "fin" -> a.n * b.d <= b.n * a.d
    [] a.k = "ninf" /\ b.k \in {"fin", "inf", "ninf"} -> TRUE
    [] b.k = "inf" /\ a.k \in {"fin", "inf", "ninf"} -> TRUE
    [] OTHER -> FALSE

IsSquare(m) == \E r \in 0..m : r * r = m

IntSqrt(m) == CHOOSE r \in 0..m : r * r = m

\* Math.sqrt of the rational n/d (n >= 0, d > 0)
Sqrt(x) ==
  IF x.k # "fin" THEN x
  ELSE IF x.n < 0 THEN NaN
  ELSE IF IsSquare(x.n) /\ IsSquare(x.d) THEN Fin(IntSqrt(x.n), IntSqrt(x.d))
  ELSE [k |-> "sqrt", n |-> x.n, d |-> x.d]

\* arithmetic on numbers; NaN propagates, the rationals are exact
NumNeg(a) ==
  CASE a.k = "fin"   -> Fin(-a.n, a.d)
    [] a.k = "inf"   -> NegInf
    [] a.k = "ninf"  -> PosInf
    [] a.k = "nan"   -> NaN
    [] a.k = "sqrt"  -> [a EXCEPT !.k = "nsqrt"]
    [] a.k = "nsqrt" -> [a EXCEPT !.k = "sqrt"]

NumAdd(a, b) ==
  CASE a.k = "nan" \/ b.k = "nan" -> NaN
    [] a.k = "fin" /\ b.k = "fin" -> Fin(a.n * b.d + b.n * a.d, a.d * b.d)
    [] a.k = "inf" /\ b.k = "ninf" -> NaN
    [] a.k = "ninf" /\ b.k = "inf" -> NaN
    [] a.k \in {"inf", "ninf"} -> a
    [] b.k \in {"inf", "ninf"} -> b

NumSub(a, b) == NumAdd(a, NumNeg(b))

Sign(i) == IF i > 0 THEN 1 ELSE IF i < 0 THEN -1 ELSE 0

NumSign(a) ==
  CASE a.k = "fin"   -> Sign(a.n)
    [] a.k = "inf"   -> 1
    [] a.k = "ninf"  -> -1
    [] a.k = "sqrt"  -> 1
    [] a.k = "nsqrt" -> -1

NumMul(a, b) ==
  CASE a.k = "nan" \/ b.k = "nan" -> NaN
    [] a.k = "fin" /\ b.k = "fin" -> Fin(a.n * b.n, a.d * b.d)
    [] NumSign(a) * NumSign(b) > 0 -> PosInf
    [] NumSign(a) * NumSign(b) < 0 -> NegInf
    [] OTHER -> NaN

\* a / b for two rationals, and for a rational a over an irrational
\* b = sqrt(n/d): the quotient is sign(a) * sqrt(a^2 * d / n)
NumDiv(a, b) ==
  CASE a.k = "nan" \/ b.k = "nan" -> NaN
    [] a.k = "fin" /\ b.k = "fin" -> JsDiv(a.n * b.d, a.d * b.n)
    [] a.k = "fin" /\ b.k = "sqrt" ->
         LET q == Sqrt(Fin(a.n * a.n * b.d, a.d * a.d * b.n))
         IN  IF a.n >= 0 THEN q ELSE NumNeg(q)
    [] a.k = "fin" -> Zero
    [] b.k = "fin" /\ b.n >= 0 -> a
    [] b.k = "fin" -> NumNeg(a)
    [] OTHER -> NaN

\* Math.min / Math.max: NaN if either argument is NaN
NumMin(a, b) ==
  IF a.k = "nan" \/ b.k = "nan" THEN NaN ELSE IF NumLEq(a, b) THEN a ELSE b

NumMax(a, b) ==
  IF a.k = "nan" \/ b.k = "nan" THEN NaN ELSE IF NumLEq(a, b) THEN b ELSE a

NumAbs(a) ==
  CASE a.k = "fin" -> Fin(Abs(a.n), a.d)
    [] a.k \in {"inf", "ninf"} -> PosInf
    [] a.k = "nan" -> NaN

\* Math.round: the nearest integer, halves towards +Infinity
Round(a) ==
  IF a.k = "fin" THEN Fin((2 * a.n + a.d) \div (2 * a.d), 1) ELSE a

IsInteger(a) == a.k = "fin" /\ a.d = 1

\* reduce((a, b) => a + b, 0) over integers, summed by halves
RECURSIVE SumSeq(_)
SumSeq(q) ==
  IF q = <<>> THEN 0
  ELSE IF Len(q) = 1 THEN q[1]
  ELSE SumSeq(SubSeq(q, 1, Len(q) \div 2)) + SumSeq(SubSeq(q, (Len(q) \div 2) + 1, Len(q)))

SumSquares(q) == SumSeq([i \in 1..Len(q) |-> q[i] * q[i]])

\* insert v into the ascending sequence q, after the elements equal to it
RECURSIVE InsertAsc(_, _)
InsertAsc(q, v) ==
  IF q = <<>> THEN <<v>>
  ELSE IF v < Head(q) THEN <<v>> \o q
  ELSE <<Head(q)>> \o InsertAsc(Tail(q), v)

\* [...spreads].sort((a, b) => a - b)
RECURSIVE SortAsc(_)
SortAsc(q) == IF q = <<>> THEN <<>> ELSE InsertAsc(SortAsc(SubSeq(q, 1, Len(q) - 1)), q[Len(q)])

(***************************************************************************)
(* Time: a timestamp is a whole number of hours since 1970-01-01T00:00Z,   *)
(* a Thursday (day 4 of the week, 0 = Sunday).                             *)
(***************************************************************************)
getUTCHours(ts) == ts % 24

getUTCDay(ts) == (4 + (ts \div 24)) % 7

(***************************************************************************)
(* Bounds of the model                                                     *)
(***************************************************************************)
MaxSpreadBps == 7
MaxMeanBps == 2
MaxStdBps == 2
MaxDepth == 1
MaxLen == 11
MaxSample == 1
MaxObs == 3
MaxHist == 2
MaxSpreadPct == 2
MaxRanked == 3
MaxCandles == 1
MaxLevels == 2
MaxQuantity == 2

(***************************************************************************)
(* check-liquidity.ts                                                      *)
(***************************************************************************)
REGIME_THRESHOLDS ==
  [very_thin_zscore |-> [n |-> 5, d |-> 2],
   thin_zscore      |-> [n |-> 3, d |-> 2],
   thick_zscore     |-> [n |-> -1, d |-> 1]]

computeRegime_strict(spreadZscore) ==
  IF NumGT(spreadZscore, REGIME_THRESHOLDS.very_thin_zscore.n,
           REGIME_THRESHOLDS.very_thin_zscore.d) THEN "very_thin"
  ELSE IF NumGT(spreadZscore, REGIME_THRESHOLDS.thin_zscore.n,
                REGIME_THRESHOLDS.thin_zscore.d) THEN "thin"
  ELSE IF NumLE(spreadZscore, REGIME_THRESHOLDS.thick_zscore.n,
                REGIME_THRESHOLDS.thick_zscore.d) THEN "thick"
  ELSE "normal"

computeRegime(spreadZscore) ==
  IF NumGE(spreadZscore, REGIME_THRESHOLDS.very_thin_zscore.n,
           REGIME_THRESHOLDS.very_thin_zscore.d) THEN "very_thin"
  ELSE IF NumGE(spreadZscore, REGIME_THRESHOLDS.thin_zscore.n,
                REGIME_THRESHOLDS.thin_zscore.d) THEN "thin"
  ELSE IF NumLE(spreadZscore, REGIME_THRESHOLDS.thick_zscore.n,
                REGIME_THRESHOLDS.thick_zscore.d) THEN "thick"
  ELSE "normal"

\* getHourEST / isOffHours / isWeekendNow read the clock (new Date())
getHourEST(now) == (getUTCHours(now) - 5 + 24) % 24

isOffHours(now) == getHourEST(now) >= 0 /\ getHourEST(now) < 6

isWeekendNow(now) == getUTCDay(now) = 0 \/ getUTCDay(now) = 6

generateRecommendation(regime, isOffHoursNow, isWeekend) ==
  IF regime = "very_thin" THEN "excellent"
  ELSE IF regime = "thin" THEN "good"
  ELSE IF regime = "thick" THEN "tight"
  ELSE IF isOffHoursNow \/ isWeekend THEN "normal_off_hours"
  ELSE "normal"

\* the z-score expressions of checkLiquidity: guarded by std > 0
liquidityZscore_unguarded(value, mean, std) == NumDiv(NumSub(value, mean), std)

liquidityZscore(value, mean, std) ==
  IF NumGT(std, 0, 1) THEN NumDiv(NumSub(value, mean), std) ELSE Zero

\* the object literal checkLiquidity returns
checkLiquidityOutput(input, now, orderbook, stats) ==
  LET spreadZscore == liquidityZscore(Fin(orderbook.spread_bps, 1), stats.mean_spread_bps,
                                      stats.std_spread_bps)
      totalDepth   == orderbook.bid_depth + orderbook.ask_depth
      depthZscore  == liquidityZscore(Fin(totalDepth, 1), stats.mean_depth, stats.std_depth)
      regime       == computeRegime(spreadZscore)
      offHours     == isOffHours(now)
      weekend      == isWeekendNow(now)
  IN  [market_id      |-> input.market_id,
       venue          |-> input.venue,
       timestamp      |-> now,
       regime         |-> regime,
       spread_bps     |-> orderbook.spread_bps,
       spread_zscore  |-> spreadZscore,
       bid_depth      |-> orderbook.bid_depth,
       ask_depth      |-> orderbook.ask_depth,
       depth_zscore   |-> depthZscore,
       hour_est       |-> getHourEST(now),
       is_off_hours   |-> offHours,
       is_weekend     |-> weekend,
       is_favorable   |-> (regime = "thin" \/ regime = "very_thin"),
       recommendation |-> generateRecommendation(regime, offHours, weekend)]



Venues == {"KALSHI", "POLYMARKET"}

\* clock readings used by the model: Thursday 04:00Z, 05:00Z and 11:00Z, and
\* Saturday 03:00Z and Sunday 12:00Z
Clock == {4, 5, 11, 51, 84}

\* replies of getKalshiOrderbook / getPolymarketSpread
OrderbookReplies ==
  [spread_bps : 0..MaxSpreadBps, bid_depth : 0..MaxDepth, ask_depth : 0..MaxDepth]

\* the whole numbers 0..m as JavaScript numbers
Whole(m) == {Fin(i, 1) : i \in 0..m}

\* replies of getHistoricalStats (a standard deviation is never negative)
StatsReplies ==
  [mean_spread_bps : Whole(MaxMeanBps), std_spread_bps : Whole(MaxStdBps),
   mean_depth : Whole(MaxDepth), std_depth : Whole(MaxDepth)]

NoInput == [market_id |-> "none", venue |-> "KALSHI"]

NoBook == [spread_bps |-> 0, bid_depth |-> 0, ask_depth |-> 0]

NoStats ==
  [mean_spread_bps |-> Zero, std_spread_bps |-> Zero, mean_depth |-> Zero, std_depth |-> Zero]

NoOutput == [error |-> "none"]

LiqInit ==
  /\ liqPc = "idle"
  /\ liqIn = NoInput
  /\ liqBook = NoBook
  /\ liqStats = NoStats
  /\ liqOut = NoOutput
  /\ liqFetches = [orderbook |-> 0, stats |-> 0]

\* checkLiquidity is entered: the first await is the orderbook fetch
LiqCall(venues) ==
  /\ liqPc \in {"idle", "done", "failed"}
  /\ \E v \in venues : liqIn' = [market_id |-> "M1", venue |-> v]
  /\ liqPc' = "orderbook"
  /\ liqBook' = NoBook
  /\ liqStats' = NoStats
  /\ liqOut' = NoOutput
  /\ liqFetches' = [orderbook |-> 0, stats |-> 0]
  /\ UNCHANGED <<statsVars, scanVars, arbVars, runVars, clientVars>>

\* the orderbook fetch resolves; the second await is getHistoricalStats
LiqOrderbookOk(books) ==
  /\ liqPc = "orderbook"
  /\ \E b \in books : liqBook' = b
  /\ liqPc' = "stats"
  /\ liqFetches' = [liqFetches EXCEPT !.orderbook = @ + 1]
  /\ UNCHANGED <<liqIn, liqStats, liqOut>>
  /\ UNCHANGED <<statsVars, scanVars, arbVars, runVars, clientVars>>

\* the orderbook fetch rejects: the rejection propagates out of checkLiquidity
LiqOrderbookFail ==
  /\ liqPc = "orderbook"
  /\ liqPc' = "failed"
  /\ liqOut' = [error |-> "orderbook"]
  /\ liqFetches' = [liqFetches EXCEPT !.orderbook = @ + 1]
  /\ UNCHANGED <<liqIn, liqBook, liqStats>>
  /\ UNCHANGED <<statsVars, scanVars, arbVars, runVars, clientVars>>

\* getHistoricalStats resolves and the rest of checkLiquidity runs to its return
LiqStatsOk(baselines, nows) ==
  /\ liqPc = "stats"
  /\ \E s \in baselines, now \in nows :
       /\ liqStats' = s
       /\ liqOut' = checkLiquidityOutput(liqIn, now, liqBook, s)
  /\ liqPc' = "done"
  /\ liqFetches' = [liqFetches EXCEPT !.stats = @ + 1]
  /\ UNCHANGED <<liqIn, liqBook>>
  /\ UNCHANGED <<statsVars, scanVars, arbVars, runVars, clientVars>>

LiqStatsFail ==
  /\ liqPc = "stats"
  /\ liqPc' = "failed"
  /\ liqOut' = [error |-> "stats"]
  /\ liqFetches' = [liqFetches EXCEPT !.stats = @ + 1]
  /\ UNCHANGED <<liqIn, liqBook, liqStats>>
  /\ UNCHANGED <<statsVars, scanVars, arbVars, runVars, clientVars>>

(***************************************************************************)
(* analysis/spread-stats.ts                                                *)
(***************************************************************************)
computeZScore_noMean(value, mean, std) ==
  IF std = Zero THEN Zero ELSE NumDiv(value, std)

computeZScore(value, mean, std) ==
  IF std = Zero THEN Zero ELSE NumDiv(NumSub(value, mean), std)

p90Index_nearest(n) == (n * 9 + 5) \div 10

\* Math.floor(n * 0.9)
p90Index(n) == (n * 9) \div 10

\* sorted[i] of a 0-indexed JavaScript array, with the code's ?? fallbacks:
\* an index outside the array reads undefined
HasIndex(sorted, i) == i >= 0 /\ i < Len(sorted)

computeStats_unsorted(spreads, groupKey) ==
  IF Len(spreads) = 0
  THEN [group_key         |-> groupKey,
        sample_count      |-> 0,
        mean_spread_bps   |-> Zero,
        median_spread_bps |-> Zero,
        std_spread_bps    |-> Zero,
        p90_spread_bps    |-> Zero,
        min_spread_bps    |-> Zero,
        max_spread_bps    |-> Zero]
  ELSE
    LET sorted   == spreads
        n        == Len(sorted)
        sum      == SumSeq(spreads)
        mean     == JsDiv(sum, n)
        median   == IF n % 2 = 0
                    THEN JsDiv(sorted[n \div 2] + sorted[(n \div 2) + 1], 2)
                    ELSE Fin(sorted[(n \div 2) + 1], 1)
        \* sum of (x - mean)^2 over n, as the exact rational
        variance == JsDiv(n * SumSquares(spreads) - sum * sum, n * n)
        std      == Sqrt(variance)
        p90      == IF HasIndex(sorted, p90Index(n)) THEN sorted[p90Index(n) + 1]
                    ELSE sorted[n]
    IN  [group_key         |-> groupKey,
         sample_count      |-> n,
         mean_spread_bps   |-> mean,
         median_spread_bps |-> median,
         std_spread_bps    |-> std,
         p90_spread_bps    |-> Fin(p90, 1),
         min_spread_bps    |-> Fin(sorted[1], 1),
         max_spread_bps    |-> Fin(sorted[n], 1)]

computeStats(spreads, groupKey) ==
  IF Len(spreads) = 0
  THEN [group_key         |-> groupKey,
        sample_count      |-> 0,
        mean_spread_bps   |-> Zero,
        median_spread_bps |-> Zero,
        std_spread_bps    |-> Zero,
        p90_spread_bps    |-> Zero,
        min_spread_bps    |-> Zero,
        max_spread_bps    |-> Zero]
  ELSE
    LET sorted   == SortAsc(spreads)
        n        == Len(sorted)
        sum      == SumSeq(spreads)
        mean     == JsDiv(sum, n)
        median   == IF n % 2 = 0
                    THEN JsDiv(sorted[n \div 2] + sorted[(n \div 2) + 1], 2)
                    ELSE Fin(sorted[(n \div 2) + 1], 1)
        \* sum of (x - mean)^2 over n, as the exact rational
        variance == JsDiv(n * SumSquares(spreads) - sum * sum, n * n)
        std      == Sqrt(variance)
        p90      == IF HasIndex(sorted, p90Index(n)) THEN sorted[p90Index(n) + 1]
                    ELSE sorted[n]
    IN  [group_key         |-> groupKey,
         sample_count      |-> n,
         mean_spread_bps   |-> mean,
         median_spread_bps |-> median,
         std_spread_bps    |-> std,
         p90_spread_bps    |-> Fin(p90, 1),
         min_spread_bps    |-> Fin(sorted[1], 1),
         max_spread_bps    |-> Fin(sorted[n], 1)]

timestampHourEST_unreduced(timestamp) == getUTCHours(timestamp) - 5

\* getHourEST(timestamp), getDayOfWeek(timestamp), isWeekend(timestamp)
timestampHourEST(timestamp) == (getUTCHours(timestamp) - 5 + 24) % 24

getDayOfWeek(timestamp) == getUTCDay(timestamp)

isWeekend(timestamp) == getDayOfWeek(timestamp) = 0 \/ getDayOfWeek(timestamp) = 6

toSpreadDataPoint(snapshot, marketId) ==
  [timestamp   |-> snapshot.timestamp,
   market_id   |-> marketId,
   spread_bps  |-> snapshot.spread_bps,
   hour_of_day |-> timestampHourEST(snapshot.timestamp),
   day_of_week |-> getDayOfWeek(snapshot.timestamp),
   is_weekend  |-> isWeekend(snapshot.timestamp)]

RECURSIVE GroupSpreads_atLeast(_, _, _)
GroupSpreads_atLeast(data, field, key) ==
  IF data = <<>> THEN <<>>
  ELSE (IF Head(data)[field] >= key THEN <<Head(data).spread_bps>> ELSE <<>>)
       \o GroupSpreads_atLeast(Tail(data), field, key)

\* groupByHour / groupByDayOfWeek followed by points.map(p => p.spread_bps):
\* the spreads of the points of one group, in input order
RECURSIVE GroupSpreads(_, _, _)
GroupSpreads(data, field, key) ==
  IF data = <<>> THEN <<>>
  ELSE (IF Head(data)[field] = key THEN <<Head(data).spread_bps>> ELSE <<>>)
       \o GroupSpreads(Tail(data), field, key)

\* data.map(p => p.spread_bps)
SpreadBpsOf(data) == [i \in 1..Len(data) |-> data[i].spread_bps]

\* statsByHour / statsByDayOfWeek: arrays indexed from 0
statsByHour(data) ==
  [h \in 0..23 |-> computeStats(GroupSpreads(data, "hour_of_day", h), <<"hour", h>>)]

statsByDayOfWeek(data) ==
  [d \in 0..6 |-> computeStats(GroupSpreads(data, "day_of_week", d), <<"dow", d>>)]

\* data.filter(p => p.is_weekend).map(p => p.spread_bps) and its complement
statsByWeekendWeekday(data) ==
  LET IsWeekendPoint(p) == p.is_weekend
      IsWeekdayPoint(p) == ~p.is_weekend
      weekendSpreads == SpreadBpsOf(SelectSeq(data, IsWeekendPoint))
      weekdaySpreads == SpreadBpsOf(SelectSeq(data, IsWeekdayPoint))
  IN  [weekend |-> computeStats(weekendSpreads, "weekend"),
       weekday |-> computeStats(weekdaySpreads, "weekday")]

(***************************************************************************)
(* Callers of spread-stats.ts: a sample that grows and is summarised, and  *)
(* a list of data points that grows and is bucketed                        *)
(***************************************************************************)


\* snapshot times: Thursday 03:00Z (22h EST), Thursday 08:00Z (3h EST),
\* Saturday 03:00Z (22h EST)
SnapshotTimes == {3, 8, 51}

NotComputed == [sample_count |-> -1]

NotSplit == [weekend |-> NotComputed, weekday |-> NotComputed]

StatsInit ==
  /\ samples = <<>>
  /\ statsOut = NotComputed
  /\ points = <<>>
  /\ hourly = <<>>
  /\ daily = <<>>
  /\ zCall = [called |-> FALSE]
  /\ weekendWeekday = NotSplit

\* computeZScore(value, mean, std)
ZScoreCall ==
  /\ ~zCall.called
  /\ \E value \in 0..MaxSpreadBps, mean \in 0..MaxMeanBps, std \in 0..MaxStdBps :
       zCall' = [called |-> TRUE, value |-> value, mean |-> mean, std |-> std,
                 out |-> computeZScore(Fin(value, 1), Fin(mean, 1), Fin(std, 1))]
  /\ UNCHANGED <<samples, statsOut, points, hourly, daily, weekendWeekday>>
  /\ UNCHANGED <<liqVars, scanVars, arbVars, runVars, clientVars>>

\* a baseline is built from a sample set with computeStats and the mean of that
\* sample set is scored against it
RoundTripCall(sampleSets) ==
  /\ ~zCall.called
  /\ \E sample \in sampleSets :
       LET stats == computeStats(sample, "group")
           z     == computeZScore(stats.mean_spread_bps, stats.mean_spread_bps,
                                  stats.std_spread_bps)
       IN  zCall' = [called |-> TRUE, sample |-> sample,
                     value |-> stats.mean_spread_bps, mean |-> stats.mean_spread_bps,
                     std |-> stats.std_spread_bps, out |-> z,
                     regime |-> computeRegime(z)]
  /\ UNCHANGED <<samples, statsOut, points, hourly, daily, weekendWeekday>>
  /\ UNCHANGED <<liqVars, scanVars, arbVars, runVars, clientVars>>

\* one more spread value is collected
AddSample ==
  /\ Len(samples) < MaxLen
  /\ \E v \in 0..MaxSample : samples' = Append(samples, v)
  /\ statsOut' = NotComputed
  /\ UNCHANGED <<points, hourly, daily, zCall, weekendWeekday>>
  /\ UNCHANGED <<liqVars, scanVars, arbVars, runVars, clientVars>>

\* computeStats(samples, "group")
ComputeStats ==
  /\ statsOut' = computeStats(samples, "group")
  /\ UNCHANGED <<samples, points, hourly, daily, zCall, weekendWeekday>>
  /\ UNCHANGED <<liqVars, scanVars, arbVars, runVars, clientVars>>

\* one more snapshot is converted and collected
AddDataPoint ==
  /\ Len(points) < MaxObs
  /\ \E t \in SnapshotTimes, v \in 0..MaxSample :
       points' = Append(points, toSpreadDataPoint([timestamp |-> t, spread_bps |-> v], "M1"))
  /\ hourly' = <<>>
  /\ daily' = <<>>
  /\ weekendWeekday' = NotSplit
  /\ UNCHANGED <<samples, statsOut, zCall>>
  /\ UNCHANGED <<liqVars, scanVars, arbVars, runVars, clientVars>>

\* statsByHour(points) and statsByDayOfWeek(points)
BuildTables ==
  /\ hourly' = statsByHour(points)
  /\ daily' = statsByDayOfWeek(points)
  /\ UNCHANGED <<samples, statsOut, points, zCall, weekendWeekday>>
  /\ UNCHANGED <<liqVars, scanVars, arbVars, runVars, clientVars>>

\* a data point built by a caller: any hour, day and weekend flag of its type
AddRawPoint(hours, days) ==
  /\ Len(points) < MaxObs
  /\ \E h \in hours, d \in days, w \in BOOLEAN :
       points' = Append(points, [timestamp |-> 0, market_id |-> "M1", spread_bps |-> 1,
                                 hour_of_day |-> h, day_of_week |-> d, is_weekend |-> w])
  /\ hourly' = <<>>
  /\ daily' = <<>>
  /\ weekendWeekday' = NotSplit
  /\ UNCHANGED <<samples, statsOut, zCall>>
  /\ UNCHANGED <<liqVars, scanVars, arbVars, runVars, clientVars>>

\* statsByWeekendWeekday(points)
BuildWeekendWeekday ==
  /\ weekendWeekday' = statsByWeekendWeekday(points)
  /\ UNCHANGED <<samples, statsOut, points, hourly, daily, zCall>>
  /\ UNCHANGED <<liqVars, scanVars, arbVars, runVars, clientVars>>

(***************************************************************************)
(* tools/scan-opportunities.ts: pure functions                             *)
(***************************************************************************)
Min(a, b) == IF a <= b THEN a ELSE b

Take(q, k) == SubSeq(q, 1, Min(k, Len(q)))

\* calculateScore: Math.round(profitScore + percentileScore + depthScore)
calculateScore(netProfitPct, spreadPercentile, bidDepth, askDepth) ==
  LET profitScore     == NumMin(NumMul(netProfitPct, Fin(10, 1)), Fin(50, 1))
      percentileScore == NumMul(NumDiv(spreadPercentile, Fin(100, 1)), Fin(30, 1))
      depthScore      == NumMul(NumMin(Fin(bidDepth + askDepth, 10000), Fin(1, 1)), Fin(20, 1))
  IN  Round(NumAdd(NumAdd(profitScore, percentileScore), depthScore))

getCurrentHourEST(now) == (getUTCHours(now) - 5 + 24) % 24

HourESTOfPoint(d) == (getUTCHours(d.timestamp) - 5 + 24) % 24

DowOfPoint(d) == getUTCDay(d.timestamp)

\* the bucket key of a data point in the dimension "hour" or "dow"
BucketKeyOf(d, dim) == IF dim = "hour" THEN HourESTOfPoint(d) ELSE DowOfPoint(d)

\* data.map(d => d.spread_pct)
SpreadsOf(data) == [i \in 1..Len(data) |-> data[i].spread_pct]

\* the spreads of the data points whose bucket key is k, in input order
SpreadsOfBucket(data, dim, k) ==
  LET InBucket(d) == BucketKeyOf(d, dim) = k
  IN  SpreadsOf(SelectSeq(data, InBucket))

\* reduce(...) / length and Math.sqrt(reduce(...) / length) of one group
MeanOf(spreads) == JsDiv(SumSeq(spreads), Len(spreads))

StdOf(spreads) ==
  LET n == Len(spreads)
      sum == SumSeq(spreads)
  IN  Sqrt(JsDiv(n * SumSquares(spreads) - sum * sum, n * n))

\* a bucket table: an entry only for the keys whose group is not empty
BucketTable(data, dim, keys) ==
  [k \in {j \in keys : Len(SpreadsOfBucket(data, dim, j)) > 0} |->
     LET g == SpreadsOfBucket(data, dim, k)
     IN  [mean |-> MeanOf(g), std |-> StdOf(g), sample_count |-> Len(g)]]

\* Object.entries of a table with integer keys: ascending key order
RECURSIVE KeysAsc(_)
KeysAsc(S) ==
  IF S = {} THEN <<>>
  ELSE LET m == CHOOSE x \in S : \A y \in S : x <= y
       IN  <<m>> \o KeysAsc(S \ {m})

RECURSIVE InsertByMeanDesc_unstable(_, _, _)
InsertByMeanDesc_unstable(q, key, table) ==
  IF q = <<>> THEN <<key>>
  ELSE IF NumLEq(table[Head(q)].mean, table[key].mean) THEN <<key>> \o q
  ELSE <<Head(q)>> \o InsertByMeanDesc_unstable(Tail(q), key, table)

\* .sort(([, a], [, b]) => b.mean - a.mean): stable, descending mean
RECURSIVE InsertByMeanDesc(_, _, _)
InsertByMeanDesc(q, key, table) ==
  IF q = <<>> THEN <<key>>
  ELSE IF ~NumLEq(table[key].mean, table[Head(q)].mean) THEN <<key>> \o q
  ELSE <<Head(q)>> \o InsertByMeanDesc(Tail(q), key, table)

RECURSIVE SortByMeanDesc(_, _)
SortByMeanDesc(q, table) ==
  IF q = <<>> THEN <<>>
  ELSE InsertByMeanDesc(SortByMeanDesc(SubSeq(q, 1, Len(q) - 1), table), q[Len(q)], table)

computeMarketStats(marketId, data) ==
  LET spreads      == SpreadsOf(data)
      spreadByHour == BucketTable(data, "hour", 0..23)
      spreadByDow  == BucketTable(data, "dow", 0..6)
  IN  [market_id       |-> marketId,
       mean_spread_pct |-> MeanOf(spreads),
       std_spread_pct  |-> StdOf(spreads),
       spread_by_hour  |-> spreadByHour,
       spread_by_dow   |-> spreadByDow,
       best_hours      |-> Take(SortByMeanDesc(KeysAsc(DOMAIN spreadByHour), spreadByHour), 5),
       best_days       |-> Take(SortByMeanDesc(KeysAsc(DOMAIN spreadByDow), spreadByDow), 3)]

\* 50 * sqrt(1 - exp(-2 z^2 / pi)) is transcendental: the model evaluates the
\* closed form on a grid of z^2 and rounds down to a whole percent, which keeps
\* it monotone, 0 at z = 0 and below 50
ErfSurrogate50(zsq) ==
  IF NumGE(zsq, 9, 1) THEN 49
  ELSE IF NumGE(zsq, 4, 1) THEN 48
  ELSE IF NumGE(zsq, 9, 4) THEN 43
  ELSE IF NumGE(zsq, 1, 1) THEN 34
  ELSE IF NumGE(zsq, 1, 4) THEN 19
  ELSE IF NumGE(zsq, 1, 16) THEN 9
  ELSE IF NumGE(zsq, 1, 100) THEN 3
  ELSE 0

StdSquared(std) == IF std.k = "sqrt" THEN Fin(std.n, std.d) ELSE NumMul(std, std)

calculatePercentile(value, mean, std) ==
  IF std = Zero THEN Fin(50, 1)
  ELSE IF value.k = "nan" \/ mean.k = "nan" \/ std.k = "nan" THEN NaN
  ELSE LET diff == NumSub(value, mean)
           zsq  == NumDiv(NumMul(diff, diff), StdSquared(std))
           pct  == Fin(50 + NumSign(diff) * ErfSurrogate50(zsq), 1)
       IN  NumMax(Zero, NumMin(Fin(100, 1), pct))

\* getNextOccurrence(targetHour): now + hoursUntil hours
getNextOccurrence(targetHour, now) ==
  LET diff       == targetHour - getCurrentHourEST(now)
      hoursUntil == IF diff <= 0 THEN diff + 24 ELSE diff
  IN  now + hoursUntil

RECURSIVE BestMatchFrom_sameHourNow(_, _, _, _, _)
BestMatchFrom_sameHourNow(bestHours, i, hoursAhead, currentHourEST, bestMatch) ==
  IF i > Len(bestHours) THEN bestMatch
  ELSE LET hour       == bestHours[i]
           diff       == hour - currentHourEST
           hoursUntil == IF diff < 0 THEN diff + 24 ELSE diff
       IN  BestMatchFrom_sameHourNow(bestHours, i + 1, hoursAhead, currentHourEST,
             IF hoursUntil <= hoursAhead /\ hoursUntil < bestMatch.hoursUntil
             THEN [hour |-> hour, hoursUntil |-> hoursUntil]
             ELSE bestMatch)

\* the loop of findNextBestHour over bestHours[i..]
RECURSIVE BestMatchFrom(_, _, _, _, _)
BestMatchFrom(bestHours, i, hoursAhead, currentHourEST, bestMatch) ==
  IF i > Len(bestHours) THEN bestMatch
  ELSE LET hour       == bestHours[i]
           diff       == hour - currentHourEST
           hoursUntil == IF diff <= 0 THEN diff + 24 ELSE diff
       IN  BestMatchFrom(bestHours, i + 1, hoursAhead, currentHourEST,
             IF hoursUntil <= hoursAhead /\ hoursUntil < bestMatch.hoursUntil
             THEN [hour |-> hour, hoursUntil |-> hoursUntil]
             ELSE bestMatch)

\* findNextBestHour returns { hour, start }; start = now + found * 1h
findNextBestHour(bestHours, hoursAhead, now) ==
  LET bestMatch == BestMatchFrom(bestHours, 1, hoursAhead, getCurrentHourEST(now),
                     [hour |-> IF Len(bestHours) > 0 THEN bestHours[1] ELSE 0,
                      hoursUntil |-> 24])
  IN  [hour |-> bestMatch.hour, start |-> now + bestMatch.hoursUntil]

predictConfidence_atLeast(stats, hour) ==
  IF hour \in DOMAIN stats.spread_by_hour /\ stats.spread_by_hour[hour].sample_count >= 50
  THEN "high"
  ELSE IF hour \in DOMAIN stats.spread_by_hour /\ stats.spread_by_hour[hour].sample_count >= 20
  THEN "medium"
  ELSE "low"

\* the confidence expression of predict
predictConfidence(stats, hour) ==
  IF hour \in DOMAIN stats.spread_by_hour /\ stats.spread_by_hour[hour].sample_count > 50
  THEN "high"
  ELSE IF hour \in DOMAIN stats.spread_by_hour /\ stats.spread_by_hour[hour].sample_count > 20
  THEN "medium"
  ELSE "low"

\* the value predict returns once the history (and the books, if any) are in
predictOutput(market_id, hours_ahead, stats, currentSpreadPct, now) ==
  LET bestHours       == Take(stats.best_hours, 3)
      bestDays        == Take(stats.best_days, 2)
      nextBestHour    == findNextBestHour(bestHours, hours_ahead, now)
      expectedSpread  == IF nextBestHour.hour \in DOMAIN stats.spread_by_hour
                         THEN stats.spread_by_hour[nextBestHour.hour].mean
                         ELSE stats.mean_spread_pct
      spreadPercentile == calculatePercentile(currentSpreadPct, stats.mean_spread_pct,
                                              stats.std_spread_pct)
  IN  [mode |-> "predict",
       prediction |->
         [market_id          |-> market_id,
          best_hours_est     |-> bestHours,
          best_days          |-> bestDays,
          next_likely_window |->
            [start               |-> nextBestHour.start,
             end                 |-> nextBestHour.start + 2,
             expected_spread_pct |-> expectedSpread,
             confidence          |-> predictConfidence(stats, nextBestHour.hour),
             reason_hour         |-> nextBestHour.hour],
          current_spread_pct |-> currentSpreadPct,
          avg_spread_pct     |-> stats.mean_spread_pct,
          spread_percentile  |-> spreadPercentile],
       summary |-> IF NumGT(spreadPercentile, 70, 1) THEN "wider" ELSE "normal"]

\* a < b for two numbers (false when either is NaN)
NumLT(a, b) == NumLEq(a, b) /\ a # b

grossSpreadPct(kalshiPrice, polymarketPrice) ==
  NumMul(NumDiv(NumAbs(NumSub(kalshiPrice, polymarketPrice)),
                NumMin(kalshiPrice, polymarketPrice)), Fin(100, 1))

buyVenueOf(kalshiPrice, polymarketPrice) ==
  IF NumLT(kalshiPrice, polymarketPrice) THEN "KALSHI" ELSE "POLYMARKET"

arbitrageLegs_swapped(kalshiPrice, polymarketPrice, size_usd) ==
  LET buyVenue  == buyVenueOf(kalshiPrice, polymarketPrice)
      buyPrice  == NumMin(kalshiPrice, polymarketPrice)
      sellPrice == NumMax(kalshiPrice, polymarketPrice)
  IN  <<[venue     |-> "KALSHI",
         direction |-> IF buyVenue = "KALSHI" THEN "BUY" ELSE "SELL",
         size_usd  |-> size_usd,
         price     |-> IF buyVenue = "KALSHI" THEN sellPrice ELSE buyPrice],
        [venue     |-> "POLYMARKET",
         direction |-> IF buyVenue = "POLYMARKET" THEN "BUY" ELSE "SELL",
         size_usd  |-> size_usd,
         price     |-> IF buyVenue = "POLYMARKET" THEN sellPrice ELSE buyPrice]>>

\* the legs scanNow and analyzeArb pass to oracle.analyzeArbitrage
arbitrageLegs(kalshiPrice, polymarketPrice, size_usd) ==
  LET buyVenue  == buyVenueOf(kalshiPrice, polymarketPrice)
      buyPrice  == NumMin(kalshiPrice, polymarketPrice)
      sellPrice == NumMax(kalshiPrice, polymarketPrice)
  IN  <<[venue     |-> "KALSHI",
         direction |-> IF buyVenue = "KALSHI" THEN "BUY" ELSE "SELL",
         size_usd  |-> size_usd,
         price     |-> IF buyVenue = "KALSHI" THEN buyPrice ELSE sellPrice],
        [venue     |-> "POLYMARKET",
         direction |-> IF buyVenue = "POLYMARKET" THEN "BUY" ELSE "SELL",
         size_usd  |-> size_usd,
         price     |-> IF buyVenue = "POLYMARKET" THEN buyPrice ELSE sellPrice]>>

\* the fee oracle is an external service: it is modelled as charging some
\* total fee on the gross profit it is given (size_usd * grossSpreadPct / 100)
oracleAnalysis(size_usd, gross, fees) ==
  LET grossProfit == NumDiv(NumMul(Fin(size_usd, 1), gross), Fin(100, 1))
      net         == NumSub(grossProfit, Fin(fees, 1))
  IN  [total_fees_usd |-> Fin(fees, 1),
       net_profit_usd |-> net,
       net_profit_pct |-> NumMul(NumDiv(net, Fin(size_usd, 1)), Fin(100, 1))]

\* the object pushed to opportunities; cache is the statsCache at that moment
scanOpportunity(pairId, kalshiPrice, polymarketPrice, analysis, cache) ==
  LET gross            == grossSpreadPct(kalshiPrice, polymarketPrice)
      buyVenue         == buyVenueOf(kalshiPrice, polymarketPrice)
      spreadPercentile == IF pairId \in DOMAIN cache
                          THEN calculatePercentile(gross, cache[pairId].mean_spread_pct,
                                                   cache[pairId].std_spread_pct)
                          ELSE Fin(50, 1)
  IN  [market_id        |-> pairId,
       kalshi_price     |-> kalshiPrice,
       polymarket_price |-> polymarketPrice,
       gross_spread_pct |-> gross,
       total_fees_usd   |-> analysis.total_fees_usd,
       net_profit_usd   |-> analysis.net_profit_usd,
       net_profit_pct   |-> analysis.net_profit_pct,
       score            |-> calculateScore(analysis.net_profit_pct, spreadPercentile, 1000, 1000),
       buy_venue        |-> buyVenue,
       sell_venue       |-> IF buyVenue = "KALSHI" THEN "POLYMARKET" ELSE "KALSHI"]

\* opportunities.sort((a, b) => b.score - a.score): stable, descending score
RECURSIVE InsertByScoreDesc(_, _)
InsertByScoreDesc(q, o) ==
  IF q = <<>> THEN <<o>>
  ELSE IF NumLT(Head(q).score, o.score) THEN <<o>> \o q
  ELSE <<Head(q)>> \o InsertByScoreDesc(Tail(q), o)

RECURSIVE SortByScoreDesc(_)
SortByScoreDesc(q) ==
  IF q = <<>> THEN <<>>
  ELSE InsertByScoreDesc(SortByScoreDesc(SubSeq(q, 1, Len(q) - 1)), q[Len(q)])

(***************************************************************************)
(* tools/scan-opportunities.ts: state and the two async handlers           *)
(***************************************************************************)



Markets == {"M1", "M2"}

\* the registry is a module constant the source ships empty ("to be populated
\* from Replay Labs"); the model fixes it at start to one of these
Registries == {<<>>, <<"M1">>, <<"M1", "M2">>}

\* the predict calls that may be in flight, and the one that the runs without
\* overlapping calls use
PredictCalls == {"p1", "p2"}

OneCall == {"p1"}

InRegistry(m) == \E i \in 1..Len(MARKET_PAIRS) : MARKET_PAIRS[i] = m

\* the locals of one predict call: historicalSpreads, stats, the clock reading
\* its findNextBestHour took, and how often it has awaited getHistoricalSpreads
\* and the pair of orderbook fetches
IdlePredict ==
  [pc |-> "idle", market_id |-> "", hours_ahead |-> 0, hist |-> <<>>,
   stats |-> [market_id |-> ""], now |-> 0, out |-> NoOutput,
   fetches |-> [history |-> 0, books |-> 0]]

NoScanInput == [min_spread_pct |-> 0, min_net_profit_usd |-> 0, size_usd |-> 0]

\* the locals of a call at the fee oracle await: the two mid prices and the legs
\* it sends
NoScanBooks == [kalshi |-> Zero, poly |-> Zero, legs |-> <<>>]

ScanInit ==
  /\ MARKET_PAIRS \in Registries
  /\ statsCache = [m \in {} |-> 0]
  /\ pred = [c \in PredictCalls |-> IdlePredict]
  /\ scanPc = "idle"
  /\ scanIn = NoScanInput
  /\ scanIdx = 0
  /\ scanBooks = NoScanBooks
  /\ scanOpps = <<>>
  /\ scanLog = <<>>
  /\ scanOut = NoOutput
  /\ scanPrev \in {[seen |-> FALSE, remember |-> r] : r \in BOOLEAN}

\* statsCache.set(market_id, stats)
CacheSet(cache, m, stats) ==
  [k \in (DOMAIN cache) \cup {m} |-> IF k = m THEN stats ELSE cache[k]]

----------------------------------------------------------------------------
\* predict() without the market_id check: every call goes on to the history fetch
PredictCall_unchecked(c, marketIds, horizons) ==
  /\ pred[c].pc \in {"idle", "done", "failed"}
  /\ \E m \in marketIds, h \in horizons :
       pred' = [pred EXCEPT ![c] =
         [IdlePredict EXCEPT !.pc = "history", !.market_id = m, !.hours_ahead = h]]
  /\ UNCHANGED <<MARKET_PAIRS, statsCache, scanPc, scanIn, scanIdx, scanBooks,
                 scanOpps, scanLog, scanOut, scanPrev>>
  /\ UNCHANGED <<liqVars, statsVars, arbVars, runVars, clientVars>>

\* predict(): entered; without a market_id it returns at once
PredictCall(c, marketIds, horizons) ==
  /\ pred[c].pc \in {"idle", "done", "failed"}
  /\ \E m \in marketIds, h \in horizons :
       pred' = [pred EXCEPT ![c] =
         IF m = ""
         THEN [IdlePredict EXCEPT !.pc = "done", !.hours_ahead = h,
                 !.out = [mode |-> "predict", summary |-> "error_market_id_required"]]
         ELSE [IdlePredict EXCEPT !.pc = "history", !.market_id = m, !.hours_ahead = h]]
  /\ UNCHANGED <<MARKET_PAIRS, statsCache, scanPc, scanIn, scanIdx, scanBooks,
                 scanOpps, scanLog, scanOut, scanPrev>>
  /\ UNCHANGED <<liqVars, statsVars, arbVars, runVars, clientVars>>

\* getHistoricalSpreads resolves: the stats are computed and cached; with no
\* registered pair the handler runs on to its return, else it awaits the books
PredictHistoryOk(c, histories, nows) ==
  /\ pred[c].pc = "history"
  /\ \E hist \in histories, now \in nows :
       LET stats == computeMarketStats(pred[c].market_id, hist)
       IN  /\ statsCache' = CacheSet(statsCache, pred[c].market_id, stats)
           /\ pred' = [pred EXCEPT ![c] =
                IF InRegistry(pred[c].market_id)
                THEN [@ EXCEPT !.pc = "books", !.hist = hist, !.stats = stats,
                        !.fetches.history = @ + 1]
                ELSE [@ EXCEPT !.pc = "done", !.hist = hist, !.stats = stats, !.now = now,
                        !.fetches.history = @ + 1,
                        !.out = predictOutput(pred[c].market_id, pred[c].hours_ahead, stats, Zero, now)]]
  /\ UNCHANGED <<MARKET_PAIRS, scanPc, scanIn, scanIdx, scanBooks, scanOpps, scanLog,
                 scanOut, scanPrev>>
  /\ UNCHANGED <<liqVars, statsVars, arbVars, runVars, clientVars>>

PredictHistoryFail_retry(c) ==
  /\ pred[c].pc = "history"
  /\ pred' = [pred EXCEPT ![c] = [@ EXCEPT !.fetches.history = @ + 1]]
  /\ UNCHANGED <<MARKET_PAIRS, statsCache, scanPc, scanIn, scanIdx, scanBooks,
                 scanOpps, scanLog, scanOut, scanPrev>>
  /\ UNCHANGED <<liqVars, statsVars, arbVars, runVars, clientVars>>

\* getHistoricalSpreads rejects: the rejection propagates out of predict
PredictHistoryFail(c) ==
  /\ pred[c].pc = "history"
  /\ pred' = [pred EXCEPT ![c] = [@ EXCEPT !.pc = "failed", !.out = [error |-> "history"],
                                          !.fetches.history = @ + 1]]
  /\ UNCHANGED <<MARKET_PAIRS, statsCache, scanPc, scanIn, scanIdx, scanBooks,
                 scanOpps, scanLog, scanOut, scanPrev>>
  /\ UNCHANGED <<liqVars, statsVars, arbVars, runVars, clientVars>>

\* both orderbook fetches of predict resolve and predict runs to its return
PredictBooksOk_fromCache(c, prices, nows) ==
  /\ pred[c].pc = "books"
  /\ \E k \in prices, p \in prices, now \in nows :
       pred' = [pred EXCEPT ![c] =
         [@ EXCEPT !.pc = "done", !.now = now, !.fetches.books = @ + 1,
            !.out = predictOutput(pred[c].market_id, pred[c].hours_ahead,
                      statsCache[pred[c].market_id],
                      NumMul(NumAbs(NumSub(k, p)), Fin(100, 1)), now)]]
  /\ UNCHANGED <<MARKET_PAIRS, statsCache, scanPc, scanIn, scanIdx, scanBooks,
                 scanOpps, scanLog, scanOut, scanPrev>>
  /\ UNCHANGED <<liqVars, statsVars, arbVars, runVars, clientVars>>

PredictBooksOk(c, prices, nows) ==
  /\ pred[c].pc = "books"
  /\ \E k \in prices, p \in prices, now \in nows :
       pred' = [pred EXCEPT ![c] =
         [@ EXCEPT !.pc = "done", !.now = now, !.fetches.books = @ + 1,
            !.out = predictOutput(pred[c].market_id, pred[c].hours_ahead, pred[c].stats,
                      NumMul(NumAbs(NumSub(k, p)), Fin(100, 1)), now)]]
  /\ UNCHANGED <<MARKET_PAIRS, statsCache, scanPc, scanIn, scanIdx, scanBooks,
                 scanOpps, scanLog, scanOut, scanPrev>>
  /\ UNCHANGED <<liqVars, statsVars, arbVars, runVars, clientVars>>

\* one of them rejects: the rejection propagates out of predict
PredictBooksFail(c) ==
  /\ pred[c].pc = "books"
  /\ pred' = [pred EXCEPT ![c] = [@ EXCEPT !.pc = "failed", !.out = [error |-> "books"],
                                          !.fetches.books = @ + 1]]
  /\ UNCHANGED <<MARKET_PAIRS, statsCache, scanPc, scanIn, scanIdx, scanBooks,
                 scanOpps, scanLog, scanOut, scanPrev>>
  /\ UNCHANGED <<liqVars, statsVars, arbVars, runVars, clientVars>>

----------------------------------------------------------------------------
\* the value scanNow returns: the array sorted in place, and the summary
scanResult(opps) ==
  [mode          |-> "scan_now",
   opportunities |-> SortByScoreDesc(opps),
   total_scanned |-> Len(MARKET_PAIRS),
   summary       |-> IF Len(opps) > 0 THEN "found" ELSE "none_found"]

\* the for loop moves on to the next pair, or past the last pair to the return;
\* scanPrev remembers the first completed scan of a run that compares scans
ScanContinue(opps, log) ==
  /\ scanLog' = log
  /\ scanBooks' = NoScanBooks
  /\ IF scanIdx < Len(MARKET_PAIRS)
     THEN /\ scanIdx' = scanIdx + 1
          /\ scanPc' = "books"
          /\ scanOpps' = opps
          /\ UNCHANGED <<scanOut, scanPrev>>
     ELSE /\ scanIdx' = scanIdx
          /\ scanPc' = "done"
          /\ scanOpps' = SortByScoreDesc(opps)
          /\ scanOut' = scanResult(opps)
          /\ scanPrev' = IF scanPrev.seen \/ ~scanPrev.remember THEN scanPrev
                         ELSE [seen |-> TRUE, remember |-> TRUE, in |-> scanIn,
                               log |-> log, out |-> scanResult(opps)]

\* scanNow(): entered; the first await is getKalshiMarkets
ScanCall(minSpreads, minProfits, sizes) ==
  /\ scanPc \in {"idle", "done", "failed"}
  /\ \E s \in minSpreads, n \in minProfits, z \in sizes :
       scanIn' = [min_spread_pct |-> s, min_net_profit_usd |-> n, size_usd |-> z]
  /\ scanPc' = "markets"
  /\ scanIdx' = 0
  /\ scanBooks' = NoScanBooks
  /\ scanOpps' = <<>>
  /\ scanLog' = <<>>
  /\ scanOut' = NoOutput
  /\ UNCHANGED <<MARKET_PAIRS, statsCache, pred, scanPrev>>
  /\ UNCHANGED <<liqVars, statsVars, arbVars, runVars, clientVars>>

\* getKalshiMarkets resolves: the loop over MARKET_PAIRS starts
ScanMarketsOk ==
  /\ scanPc = "markets"
  /\ ScanContinue(<<>>, <<>>)
  /\ UNCHANGED <<MARKET_PAIRS, statsCache, pred, scanIn>>
  /\ UNCHANGED <<liqVars, statsVars, arbVars, runVars, clientVars>>

\* getKalshiMarkets rejects outside the try block: scanNow rejects
ScanMarketsFail ==
  /\ scanPc = "markets"
  /\ scanPc' = "failed"
  /\ scanOut' = [error |-> "markets"]
  /\ UNCHANGED <<MARKET_PAIRS, statsCache, pred, scanIn, scanIdx, scanBooks, scanOpps,
                 scanLog, scanPrev>>
  /\ UNCHANGED <<liqVars, statsVars, arbVars, runVars, clientVars>>

\* both orderbook fetches of the current pair resolve; a spread below
\* min_spread_pct skips the pair, else the fee analysis is awaited
ScanBooksOk(bookReplies) ==
  /\ scanPc = "books"
  /\ \E b \in bookReplies :
       LET k == b[1]
           p == b[2]
       IN
       IF NumLT(grossSpreadPct(k, p), Fin(scanIn.min_spread_pct, 1))
       THEN ScanContinue(scanOpps,
              Append(scanLog, [pair |-> MARKET_PAIRS[scanIdx], outcome |-> "below_spread",
                               kalshi |-> k, poly |-> p, fees |-> 0]))
       ELSE /\ scanBooks' = [kalshi |-> k, poly |-> p,
                            legs |-> arbitrageLegs(k, p, scanIn.size_usd)]
            /\ scanPc' = "fees"
            /\ UNCHANGED <<scanIdx, scanOpps, scanLog, scanOut, scanPrev>>
  /\ UNCHANGED <<MARKET_PAIRS, statsCache, pred, scanIn>>
  /\ UNCHANGED <<liqVars, statsVars, arbVars, runVars, clientVars>>

ScanBooksFail_rethrow ==
  /\ scanPc = "books"
  /\ scanPc' = "failed"
  /\ scanOut' = [error |-> "books"]
  /\ UNCHANGED <<MARKET_PAIRS, statsCache, pred, scanIn, scanIdx, scanBooks, scanOpps,
                 scanLog, scanPrev>>
  /\ UNCHANGED <<liqVars, statsVars, arbVars, runVars, clientVars>>

\* an orderbook fetch rejects inside the try block: catch, continue
ScanBooksFail ==
  /\ scanPc = "books"
  /\ ScanContinue(scanOpps,
       Append(scanLog, [pair |-> MARKET_PAIRS[scanIdx], outcome |-> "books_failed",
                        kalshi |-> Zero, poly |-> Zero, fees |-> 0]))
  /\ UNCHANGED <<MARKET_PAIRS, statsCache, pred, scanIn>>
  /\ UNCHANGED <<liqVars, statsVars, arbVars, runVars, clientVars>>

\* oracle.analyzeArbitrage resolves; a net profit below min_net_profit_usd skips
\* the pair, else the cache is read and the opportunity is pushed
ScanFeesOk(feeSet) ==
  /\ scanPc = "fees"
  /\ \E fees \in feeSet :
       LET k        == scanBooks.kalshi
           p        == scanBooks.poly
           analysis == oracleAnalysis(scanIn.size_usd, grossSpreadPct(k, p), fees)
       IN  IF NumLT(analysis.net_profit_usd, Fin(scanIn.min_net_profit_usd, 1))
           THEN ScanContinue(scanOpps,
                  Append(scanLog, [pair |-> MARKET_PAIRS[scanIdx],
                                   outcome |-> "below_profit",
                                   kalshi |-> k, poly |-> p, fees |-> fees]))
           ELSE ScanContinue(
                  Append(scanOpps,
                         scanOpportunity(MARKET_PAIRS[scanIdx], k, p, analysis, statsCache)),
                  Append(scanLog, [pair |-> MARKET_PAIRS[scanIdx], outcome |-> "pushed",
                                   kalshi |-> k, poly |-> p, fees |-> fees]))
  /\ UNCHANGED <<MARKET_PAIRS, statsCache, pred, scanIn>>
  /\ UNCHANGED <<liqVars, statsVars, arbVars, runVars, clientVars>>

\* oracle.analyzeArbitrage rejects inside the try block: catch, continue
ScanFeesFail ==
  /\ scanPc = "fees"
  /\ ScanContinue(scanOpps,
       Append(scanLog, [pair |-> MARKET_PAIRS[scanIdx], outcome |-> "fees_failed",
                        kalshi |-> scanBooks.kalshi, poly |-> scanBooks.poly, fees |-> 0]))
  /\ UNCHANGED <<MARKET_PAIRS, statsCache, pred, scanIn>>
  /\ UNCHANGED <<liqVars, statsVars, arbVars, runVars, clientVars>>

(***************************************************************************)
(* tools/analyze-arb.ts                                                    *)
(***************************************************************************)
determineAction_spreadFirst(isProfitable, grossSpread, netProfitPct) ==
  IF NumGE(grossSpread, 3, 1) THEN [action |-> "EXECUTE", reason |-> "strong"]
  ELSE IF isProfitable THEN [action |-> "EXECUTE", reason |-> "profitable"]
  ELSE IF NumGE(grossSpread, 3, 2) THEN [action |-> "WAIT", reason |-> "borderline"]
  ELSE IF ~NumGE(grossSpread, 1, 2) /\ grossSpread.k # "nan"
  THEN [action |-> "SKIP", reason |-> "no_opportunity"]
  ELSE [action |-> "SKIP", reason |-> "unprofitable"]

\* determineAction: the chain of returns; grossSpreadPct < 0.5 is false of NaN
determineAction(isProfitable, grossSpread, netProfitPct) ==
  IF isProfitable /\ NumGE(grossSpread, 3, 1) THEN [action |-> "EXECUTE", reason |-> "strong"]
  ELSE IF isProfitable THEN [action |-> "EXECUTE", reason |-> "profitable"]
  ELSE IF NumGE(grossSpread, 3, 2) THEN [action |-> "WAIT", reason |-> "borderline"]
  ELSE IF ~NumGE(grossSpread, 1, 2) /\ grossSpread.k # "nan"
  THEN [action |-> "SKIP", reason |-> "no_opportunity"]
  ELSE [action |-> "SKIP", reason |-> "unprofitable"]

\* leg_estimates.find(e => e.venue === venue)?.total_fee_usd ?? 0
legFee(leg_estimates, venue) ==
  IF \E i \in 1..Len(leg_estimates) : leg_estimates[i].venue = venue
  THEN leg_estimates[CHOOSE i \in 1..Len(leg_estimates) :
                       /\ leg_estimates[i].venue = venue
                       /\ \A j \in 1..(i - 1) : leg_estimates[j].venue # venue].total_fee_usd
  ELSE Zero

\* the object literal analyzeArb returns; analysis is the oracle's answer
analyzeArbOutput(input, kalshiPrice, polymarketPrice, analysis) ==
  LET priceDiff      == NumAbs(NumSub(kalshiPrice, polymarketPrice))
      buyVenue       == IF NumLT(kalshiPrice, polymarketPrice) THEN "KALSHI" ELSE "POLYMARKET"
      sellVenue      == IF NumLT(kalshiPrice, polymarketPrice) THEN "POLYMARKET" ELSE "KALSHI"
      buyPrice       == NumMin(kalshiPrice, polymarketPrice)
      gross          == NumMul(NumDiv(priceDiff, buyPrice), Fin(100, 1))
      grossProfitUsd == NumMul(Fin(input.size_usd, 1), NumDiv(gross, Fin(100, 1)))
      decision       == determineAction(analysis.is_profitable, gross, analysis.net_profit_pct)
  IN  [kalshi_price         |-> kalshiPrice,
       polymarket_price     |-> polymarketPrice,
       price_diff           |-> priceDiff,
       gross_spread_pct     |-> gross,
       gross_profit_usd     |-> grossProfitUsd,
       kalshi_fee_usd       |-> legFee(analysis.leg_estimates, "KALSHI"),
       polymarket_fee_usd   |-> legFee(analysis.leg_estimates, "POLYMARKET"),
       total_fees_usd       |-> analysis.total_fees_usd,
       fees_as_pct_of_gross |-> IF NumGT(grossProfitUsd, 0, 1)
                                THEN NumMul(NumDiv(analysis.total_fees_usd, grossProfitUsd),
                                            Fin(100, 1))
                                ELSE Fin(100, 1),
       net_profit_usd       |-> analysis.net_profit_usd,
       net_profit_pct       |-> analysis.net_profit_pct,
       is_profitable        |-> analysis.is_profitable,
       buy_venue            |-> buyVenue,
       sell_venue           |-> sellVenue,
       action               |-> decision.action,
       reason               |-> decision.reason,
       size_usd             |-> input.size_usd]

\* mid prices the two books may answer: gross spreads NaN (0 / 0), Infinity,
\* 25%, 2%, 1% and 0.2%
ArbPrices == {Fin(0, 1), Fin(40, 100), Fin(500, 1000), Fin(501, 1000), Fin(505, 1000),
              Fin(510, 1000)}

\* answers of oracle.analyzeArbitrage: the fee oracle is an external package,
\* so its verdict is_profitable is any boolean
ArbOracleReplies(size_usd, gross) ==
  {[a EXCEPT !.leg_estimates = legs] :
     a \in {[is_profitable  |-> b,
             total_fees_usd |-> oracleAnalysis(size_usd, gross, f).total_fees_usd,
             net_profit_usd |-> oracleAnalysis(size_usd, gross, f).net_profit_usd,
             net_profit_pct |-> oracleAnalysis(size_usd, gross, f).net_profit_pct,
             leg_estimates  |-> <<>>] : b \in BOOLEAN, f \in {5, 300}},
     legs \in {<<>>, <<[venue |-> "KALSHI", total_fee_usd |-> Fin(2, 1)],
                       [venue |-> "POLYMARKET", total_fee_usd |-> Fin(3, 1)]>>}}

NoArbInput == [size_usd |-> 0, min_net_profit_pct |-> Zero]

ArbInit ==
  /\ arbPc = "idle"
  /\ arbIn = NoArbInput
  /\ arbBooks = NoScanBooks
  /\ arbOut = NoOutput

\* analyzeArb is entered: the first await is the pair of orderbook fetches
ArbCall ==
  /\ arbPc \in {"idle", "done", "failed"}
  /\ arbIn' = [size_usd |-> 1000, min_net_profit_pct |-> Fin(1, 2)]
  /\ arbPc' = "books"
  /\ arbBooks' = NoScanBooks
  /\ arbOut' = NoOutput
  /\ UNCHANGED <<liqVars, statsVars, scanVars, runVars, clientVars>>

\* both orderbook fetches resolve; the next await is the fee oracle
ArbBooksOk ==
  /\ arbPc = "books"
  /\ \E k \in ArbPrices, p \in ArbPrices :
       arbBooks' = [kalshi |-> k, poly |-> p, legs |-> arbitrageLegs(k, p, arbIn.size_usd)]
  /\ arbPc' = "fees"
  /\ UNCHANGED <<arbIn, arbOut>>
  /\ UNCHANGED <<liqVars, statsVars, scanVars, runVars, clientVars>>

\* an orderbook fetch rejects: the rejection propagates out of analyzeArb
ArbBooksFail ==
  /\ arbPc = "books"
  /\ arbPc' = "failed"
  /\ arbOut' = [error |-> "books"]
  /\ UNCHANGED <<arbIn, arbBooks>>
  /\ UNCHANGED <<liqVars, statsVars, scanVars, runVars, clientVars>>

\* oracle.analyzeArbitrage resolves and analyzeArb runs to its return
ArbFeesOk ==
  /\ arbPc = "fees"
  /\ \E analysis \in ArbOracleReplies(arbIn.size_usd,
                        grossSpreadPct(arbBooks.kalshi, arbBooks.poly)) :
       arbOut' = analyzeArbOutput(arbIn, arbBooks.kalshi, arbBooks.poly, analysis)
  /\ arbPc' = "done"
  /\ UNCHANGED <<arbIn, arbBooks>>
  /\ UNCHANGED <<liqVars, statsVars, scanVars, runVars, clientVars>>

ArbFeesFail ==
  /\ arbPc = "fees"
  /\ arbPc' = "failed"
  /\ arbOut' = [error |-> "fees"]
  /\ UNCHANGED <<arbIn, arbBooks>>
  /\ UNCHANGED <<liqVars, statsVars, scanVars, runVars, clientVars>>

(***************************************************************************)
(* Specifications                                                          *)
(***************************************************************************)
(***************************************************************************)
(* run-analysis.ts: fetchHistoricalData                                    *)
(***************************************************************************)
\* new Date(date.getTime() - 5 * 60 * 60 * 1000)
estDate(ts) == ts - 5

\* the data point pushed for one Kalshi candle: the hour and the day of week
\* are both read from the shifted date
candleDataPoint(end_period_ts) ==
  [timestamp |-> end_period_ts,
   hour      |-> getUTCHours(estDate(end_period_ts)),
   dayOfWeek |-> getUTCDay(estDate(end_period_ts))]

RunInit == analysisData = <<>>

\* one iteration of the loop over kalshiCandles
AnalysisCandle(times) ==
  /\ Len(analysisData) < MaxCandles
  /\ \E ts \in times : analysisData' = Append(analysisData, candleDataPoint(ts))
  /\ UNCHANGED <<liqVars, statsVars, scanVars, arbVars, clientVars>>

(***************************************************************************)
(* client/replay-labs.ts: getKalshiOrderbook and parseKalshiOrderbook      *)
(***************************************************************************)
\* response.yes.filter(l => l.quantity > 0)
WithQuantity(levels) ==
  LET HasQuantity(l) == l.quantity > 0 IN SelectSeq(levels, HasQuantity)

\* insert level l into q, sorted by descending price, after its equals
RECURSIVE InsertPriceDesc(_, _)
InsertPriceDesc(q, l) ==
  IF q = <<>> THEN <<l>>
  ELSE IF NumLT(Head(q).price, l.price) THEN <<l>> \o q
  ELSE <<Head(q)>> \o InsertPriceDesc(Tail(q), l)

\* .sort((a, b) => b.price - a.price)
RECURSIVE SortPriceDesc(_)
SortPriceDesc(q) ==
  IF q = <<>> THEN <<>>
  ELSE InsertPriceDesc(SortPriceDesc(SubSeq(q, 1, Len(q) - 1)), q[Len(q)])

\* insert level l into q, sorted by ascending price, after its equals
RECURSIVE InsertPriceAsc(_, _)
InsertPriceAsc(q, l) ==
  IF q = <<>> THEN <<l>>
  ELSE IF NumLT(l.price, Head(q).price) THEN <<l>> \o q
  ELSE <<Head(q)>> \o InsertPriceAsc(Tail(q), l)

\* .sort((a, b) => a.price - b.price)
RECURSIVE SortPriceAsc(_)
SortPriceAsc(q) ==
  IF q = <<>> THEN <<>>
  ELSE InsertPriceAsc(SortPriceAsc(SubSeq(q, 1, Len(q) - 1)), q[Len(q)])

\* levels.reduce((sum, l) => sum + l.quantity, 0)
QuantityOf(levels) == SumSeq([i \in 1..Len(levels) |-> levels[i].quantity])

parseKalshiOrderbook(response) ==
  LET yesBids    == SortPriceDesc(WithQuantity(response.yes))
      yesAsks    == SortPriceAsc(WithQuantity(response.yes))
      bestBid    == IF Len(yesBids) > 0 THEN yesBids[1].price ELSE Zero
      bestAsk    == IF Len(yesAsks) > 0 THEN yesAsks[1].price ELSE Fin(1, 1)
      midPrice   == NumDiv(NumAdd(bestBid, bestAsk), Fin(2, 1))
      spread     == NumSub(bestAsk, bestBid)
      spreadBps  == IF NumGT(midPrice, 0, 1)
                    THEN NumMul(NumDiv(spread, midPrice), Fin(10000, 1))
                    ELSE Zero
      bidDepth   == QuantityOf(yesBids)
      askDepth   == QuantityOf(yesAsks)
      totalDepth == bidDepth + askDepth
      imbalance  == IF totalDepth > 0 THEN JsDiv(bidDepth - askDepth, totalDepth) ELSE Zero
  IN  [mid_price  |-> midPrice,
       spread     |-> spread,
       spread_bps |-> spreadBps,
       imbalance  |-> imbalance,
       bid_depth  |-> bidDepth,
       ask_depth  |-> askDepth]

\* price levels of a Kalshi orderbook response
KalshiLevels == [price : {Fin(40, 100), Fin(60, 100)}, quantity : 0..MaxQuantity]

\* responses with up to MaxLevels yes levels and up to one no level
KalshiResponses ==
  [yes : UNION {[1..n -> KalshiLevels] : n \in 0..MaxLevels},
   no  : UNION {[1..n -> KalshiLevels] : n \in 0..1}]

ClientInit == kalshiCall = [pc |-> "idle"]

\* getKalshiOrderbook: the fetch resolves and the response is parsed
KalshiOrderbookOk(responses) ==
  /\ kalshiCall.pc = "idle"
  /\ \E r \in responses :
       kalshiCall' = [pc |-> "done", response |-> r, snapshot |-> parseKalshiOrderbook(r)]
  /\ UNCHANGED <<liqVars, statsVars, scanVars, arbVars, runVars>>

\* getKalshiOrderbook: the fetch rejects
KalshiOrderbookFail ==
  /\ kalshiCall.pc = "idle"
  /\ kalshiCall' = [pc |-> "failed"]
  /\ UNCHANGED <<liqVars, statsVars, scanVars, arbVars, runVars>>

Init == LiqInit /\ StatsInit /\ ScanInit /\ ArbInit /\ RunInit /\ ClientInit

\* the start with the registry as the source ships it
InitShipped == Init /\ MARKET_PAIRS = <<>> /\ ~scanPrev.remember

\* the start with a registry of none, one or two pairs
InitRegistry == Init /\ ~scanPrev.remember

\* the same, for the runs that compare a scan with the first one
InitRemember == Init /\ scanPrev.remember

\* checkLiquidity calls
NextLiquidity ==
  \/ LiqCall(Venues)
  \/ LiqOrderbookOk(OrderbookReplies)
  \/ LiqOrderbookFail
  \/ LiqStatsOk(StatsReplies, Clock)
  \/ LiqStatsFail

SpecLiquidity == InitShipped /\ [][NextLiquidity]_vars

\* checkLiquidity calls at one venue and one time, and computeZScore calls
NextZScore ==
  \/ LiqCall({"KALSHI"})
  \/ LiqOrderbookOk(OrderbookReplies)
  \/ LiqOrderbookFail
  \/ LiqStatsOk(StatsReplies, {11})
  \/ LiqStatsFail
  \/ ZScoreCall

SpecZScore == InitShipped /\ [][NextZScore]_vars

\* computeStats over a growing sample
NextStats ==
  \/ AddSample
  \/ ComputeStats

SpecStats == InitShipped /\ [][NextStats]_vars

\* statsByHour / statsByDayOfWeek over a growing list of data points
NextProfile ==
  \/ AddDataPoint
  \/ BuildTables

SpecProfile == InitShipped /\ [][NextProfile]_vars

\* every non-empty sample set of up to three spreads
SampleSets == UNION {[1..n -> 0..MaxSpreadBps] : n \in 1..3}

\* one computeZScore call, on free arguments or on a sample set's own mean
NextRoundTrip ==
  \/ ZScoreCall
  \/ RoundTripCall(SampleSets)

SpecRoundTrip == InitShipped /\ [][NextRoundTrip]_vars

\* the histories two overlapping calls may fetch
OverlapHistories ==
  {<<[timestamp |-> 8, spread_pct |-> 1]>>,
   <<[timestamp |-> 13, spread_pct |-> 3], [timestamp |-> 13, spread_pct |-> 1]>>}

\* two predict calls and a scan in flight at once, their fetches resolving in
\* any order
NextOverlap ==
  \/ \E c \in PredictCalls : PredictCall(c, {"M1", "M2"}, {24})
  \/ \E c \in PredictCalls : PredictHistoryOk(c, OverlapHistories, {11})
  \/ \E c \in PredictCalls : PredictHistoryFail(c)
  \/ \E c \in PredictCalls : PredictBooksOk(c, {Fin(50, 100)}, {11})
  \/ \E c \in PredictCalls : PredictBooksFail(c)
  \/ ScanCall({2}, {-100}, {1000})
  \/ ScanMarketsOk
  \/ ScanMarketsFail
  \/ ScanBooksOk({<<Fin(50, 100), Fin(40, 100)>>})
  \/ ScanBooksFail
  \/ ScanFeesOk({5})
  \/ ScanFeesFail

SpecOverlap == InitRegistry /\ [][NextOverlap]_vars

\* getKalshiOrderbook calls
NextClient ==
  \/ KalshiOrderbookOk(KalshiResponses)
  \/ KalshiOrderbookFail

SpecClient == InitShipped /\ [][NextClient]_vars

\* snapshots converted to data points, and checkLiquidity calls at each clock
\* reading
NextTimeKeys ==
  \/ AddDataPoint
  \/ LiqCall({"KALSHI"})
  \/ LiqOrderbookOk({NoBook})
  \/ LiqOrderbookFail
  \/ LiqStatsOk({NoStats}, Clock)
  \/ LiqStatsFail

SpecTimeKeys == InitShipped /\ [][NextTimeKeys]_vars

\* the three bucketings over lists of data points of any hour, day and flag
NextPartition ==
  \/ AddRawPoint({0, 23}, {3, 6})
  \/ BuildTables
  \/ BuildWeekendWeekday

SpecPartition == InitShipped /\ [][NextPartition]_vars

\* analyzeArb calls
NextArb ==
  \/ ArbCall
  \/ ArbBooksOk
  \/ ArbBooksFail
  \/ ArbFeesOk
  \/ ArbFeesFail

SpecArb == InitShipped /\ [][NextArb]_vars

\* inputs of the scan_now / predict calls
HistoryTimes == {8, 13, 32}

HistoryPoints == [timestamp : HistoryTimes, spread_pct : 1..MaxSpreadPct]

Histories == UNION {[1..n -> HistoryPoints] : n \in 0..MaxHist}

Horizons == {0, 5, 24}

MidPrices == {Fin(40, 100), Fin(50, 100)}

FeeReplies == {5, 300}

MinProfits == {-100, 10}

\* a few histories for the runs that interleave predict with a scan
FewHistories ==
  {<<>>,
   <<[timestamp |-> 8, spread_pct |-> 1], [timestamp |-> 13, spread_pct |-> 3]>>}

\* predict calls alone, over every short history
NextPredict ==
  \/ \E c \in OneCall : PredictCall(c, {"", "M1"}, Horizons)
  \/ \E c \in OneCall : PredictHistoryOk(c, Histories, Clock)
  \/ \E c \in OneCall : PredictHistoryFail(c)
  \/ \E c \in OneCall : PredictBooksOk(c, MidPrices, Clock)
  \/ \E c \in OneCall : PredictBooksFail(c)

SpecPredict == InitRegistry /\ [][NextPredict]_vars

\* scans interleaved with predict calls
NextScan ==
  \/ ScanCall({2}, MinProfits, {1000})
  \/ ScanMarketsOk
  \/ ScanMarketsFail
  \/ ScanBooksOk(MidPrices \X MidPrices)
  \/ ScanBooksFail
  \/ ScanFeesOk(FeeReplies)
  \/ ScanFeesFail
  \/ \E c \in OneCall : PredictCall(c, {"M1"}, {24})
  \/ \E c \in OneCall : PredictHistoryOk(c, FewHistories, {11})
  \/ \E c \in OneCall : PredictHistoryFail(c)
  \/ \E c \in OneCall : PredictBooksOk(c, MidPrices, {11})
  \/ \E c \in OneCall : PredictBooksFail(c)

SpecScan == InitRegistry /\ [][NextScan]_vars

\* analyzeArb calls and scans of the registry
NextVenues ==
  \/ ArbCall
  \/ ArbBooksOk
  \/ ArbBooksFail
  \/ ArbFeesOk
  \/ ArbFeesFail
  \/ ScanCall({2}, {-100}, {1000})
  \/ ScanMarketsOk
  \/ ScanMarketsFail
  \/ ScanBooksOk(MidPrices \X MidPrices)
  \/ ScanBooksFail
  \/ ScanFeesOk({5})
  \/ ScanFeesFail

SpecVenues == InitRegistry /\ [][NextVenues]_vars

\* the same, with one answer of the books and of the oracle, remembering the
\* first completed scan to compare the later ones with it
NextScanTwice ==
  \/ ScanCall({2}, {10}, {1000})
  \/ ScanMarketsOk
  \/ ScanMarketsFail
  \/ ScanBooksOk({<<Fin(40, 100), Fin(50, 100)>>})
  \/ ScanBooksFail
  \/ ScanFeesOk({5})
  \/ ScanFeesFail
  \/ \E c \in OneCall : PredictCall(c, {"M1"}, {24})
  \/ \E c \in OneCall : PredictHistoryOk(c, FewHistories \ {<<>>}, {11})
  \/ \E c \in OneCall : PredictHistoryFail(c)
  \/ \E c \in OneCall : PredictBooksOk(c, MidPrices, {11})
  \/ \E c \in OneCall : PredictBooksFail(c)

SpecScanTwice == InitRemember /\ [][NextScanTwice]_vars

\* a week of hourly observations from the hour `first` on: the hour bucket 3
\* (EST) always has spread 400 and every other hour has spread 100
WeekOfSpreads(first) ==
  [i \in 1..(7 * 24) |->
     [timestamp  |-> first + i - 1,
      spread_pct |-> IF (getUTCHours(first + i - 1) - 5 + 24) % 24 = 3 THEN 400 ELSE 100]]

WeekStarts == {0, 30}

WeekHistories == {WeekOfSpreads(first) : first \in WeekStarts}

\* what getHistoricalStats answers for a market whose history is hist: the
\* mean and the standard deviation of all its spreads
BaselineOf(hist) ==
  [mean_spread_bps |-> MeanOf(SpreadsOf(hist)),
   std_spread_bps  |-> StdOf(SpreadsOf(hist)),
   mean_depth      |-> Zero,
   std_depth       |-> Zero]

WeekBaselines == {BaselineOf(h) : h \in WeekHistories}

WeekBooks == [spread_bps : {100, 400}, bid_depth : {0}, ask_depth : {0}]

\* clock readings after the week: 03:00 and 10:00 EST of the following days
WeekClock == {200, 207}

\* predict and checkLiquidity calls about a market with such a week of history
NextWeek ==
  \/ \E c \in OneCall : PredictCall(c, {"M1"}, Horizons)
  \/ \E c \in OneCall : PredictHistoryOk(c, WeekHistories, WeekClock)
  \/ \E c \in OneCall : PredictHistoryFail(c)
  \/ \E c \in OneCall : PredictBooksOk(c, MidPrices, WeekClock)
  \/ \E c \in OneCall : PredictBooksFail(c)
  \/ LiqCall({"KALSHI"})
  \/ LiqOrderbookOk(WeekBooks)
  \/ LiqOrderbookFail
  \/ LiqStatsOk(WeekBaselines, WeekClock)
  \/ LiqStatsFail

SpecWeek == InitRegistry /\ [][NextWeek]_vars

\* histories of n daily observations at 03:00 EST (spread 2) followed by m
\* daily observations at 22:00 EST (spread 1), for sample counts around the
\* two confidence limits
DailyHistory(n, m) ==
  [i \in 1..(n + m) |->
     IF i <= n THEN [timestamp |-> 8 + 24 * (i - 1), spread_pct |-> 2]
     ELSE [timestamp |-> 3 + 24 * (i - n - 1), spread_pct |-> 1]]

SampleCounts == {0, 20, 21, 50, 51}

DailyHistories == {DailyHistory(n, m) : n \in SampleCounts, m \in {0, 21}}

\* predict calls over such histories, at 06:00 and at 23:00 EST
NextConfidence ==
  \/ \E c \in OneCall : PredictCall(c, {"M1"}, Horizons)
  \/ \E c \in OneCall : PredictHistoryOk(c, DailyHistories, {11, 52})
  \/ \E c \in OneCall : PredictHistoryFail(c)
  \/ \E c \in OneCall : PredictBooksOk(c, {Fin(50, 100)}, {11, 52})
  \/ \E c \in OneCall : PredictBooksFail(c)

SpecConfidence == InitRegistry /\ [][NextConfidence]_vars

\* a few baselines for the runs that follow the fetches of the calls
FewBaselines ==
  {NoStats, [NoStats EXCEPT !.mean_spread_bps = Fin(1, 1), !.std_spread_bps = Fin(1, 1)]}

\* checkLiquidity and predict calls whose fetches resolve or reject
NextFetch ==
  \/ LiqCall(Venues)
  \/ LiqOrderbookOk(WeekBooks)
  \/ LiqOrderbookFail
  \/ LiqStatsOk(FewBaselines, {11})
  \/ LiqStatsFail
  \/ \E c \in OneCall : PredictCall(c, {"", "M1"}, {24})
  \/ \E c \in OneCall : PredictHistoryOk(c, FewHistories, {11})
  \/ \E c \in OneCall : PredictHistoryFail(c)
  \/ \E c \in OneCall : PredictBooksOk(c, MidPrices, {11})
  \/ \E c \in OneCall : PredictBooksFail(c)

SpecFetch == InitRegistry /\ [][NextFetch]_vars

\* histories with one observation (spread 1) at each hour of a set of hours:
\* 00:00, 03:00, 10:00 and 17:00 EST
HourlyTimes == {5, 8, 15, 22}

HistoryAt(T) ==
  LET ts == KeysAsc(T)
  IN  [i \in 1..Len(ts) |-> [timestamp |-> ts[i], spread_pct |-> 1]]

HourlyHistories == {HistoryAt(T) : T \in SUBSET HourlyTimes}

\* predict calls at 23:00, 00:00, 03:00, 10:00 and 17:00 EST
NextWindow ==
  \/ \E c \in OneCall : PredictCall(c, {"M1"}, Horizons)
  \/ \E c \in OneCall : PredictHistoryOk(c, HourlyHistories, {4, 5, 8, 15, 22})
  \/ \E c \in OneCall : PredictHistoryFail(c)
  \/ \E c \in OneCall : PredictBooksOk(c, {Fin(50, 100)}, {4, 5, 8, 15, 22})
  \/ \E c \in OneCall : PredictBooksFail(c)

SpecWindow == InitRegistry /\ [][NextWindow]_vars

\* every history of up to MaxRanked observations, each at Thursday 03:00 EST
\* or Friday 08:00 EST with spread 1 or 2
RankedPoints == [timestamp : {8, 37}, spread_pct : {1, 2}]

RankedHistories == UNION {[1..n -> RankedPoints] : n \in 0..MaxRanked}

\* predict calls over such histories
NextRank ==
  \/ \E c \in OneCall : PredictCall(c, {"M1"}, {24})
  \/ \E c \in OneCall : PredictHistoryOk(c, RankedHistories, {11})
  \/ \E c \in OneCall : PredictHistoryFail(c)
  \/ \E c \in OneCall : PredictBooksOk(c, {Fin(50, 100)}, {11})
  \/ \E c \in OneCall : PredictBooksFail(c)

SpecRank == InitRegistry /\ [][NextRank]_vars

\* a history of one observation at each snapshot time
SingleHistories == {<<[timestamp |-> t, spread_pct |-> 1]>> : t \in SnapshotTimes}

\* the same timestamps bucketed by spread-stats, by run-analysis and by the
\* stats of a predict call
NextBucketing ==
  \/ AddDataPoint
  \/ AnalysisCandle(SnapshotTimes)
  \/ \E c \in OneCall : PredictCall(c, {"M1"}, {24})
  \/ \E c \in OneCall : PredictHistoryOk(c, SingleHistories, {11})
  \/ \E c \in OneCall : PredictHistoryFail(c)

SpecBucketing == InitShipped /\ [][NextBucketing]_vars

(***************************************************************************)
(* Properties of checkLiquidity                                            *)
(***************************************************************************)
LiqDone == liqPc = "done"

\* the exact z-score of the spread, compared with q = qn/qd, from the inputs
\* of the call (std > 0): z >= q iff (spread - mean) * qd >= qn * std
SpreadZGE(qn, qd) ==
  NumLEq(NumMul(Fin(qn, qd), liqStats.std_spread_bps),
         NumSub(Fin(liqBook.spread_bps, 1), liqStats.mean_spread_bps))

SpreadZLE(qn, qd) ==
  NumLEq(NumSub(Fin(liqBook.spread_bps, 1), liqStats.mean_spread_bps),
         NumMul(Fin(qn, qd), liqStats.std_spread_bps))

\* C1: the regime of a completed check is very_thin if z >= 2.5, otherwise thin
\* if z >= 1.5, otherwise thick if z <= -1.0, otherwise normal, z being
\* (spread - mean) / std of the call's own inputs; below 1.5 it is never thin
\* or very_thin
C1_RegimeThresholds ==
  (LiqDone /\ IsFinite(liqStats.std_spread_bps) /\ NumGT(liqStats.std_spread_bps, 0, 1)) =>
    /\ liqOut.regime = "very_thin" <=> SpreadZGE(5, 2)
    /\ liqOut.regime = "thin" <=> (~SpreadZGE(5, 2) /\ SpreadZGE(3, 2))
    /\ liqOut.regime = "thick" <=> (~SpreadZGE(3, 2) /\ SpreadZLE(-1, 1))
    /\ liqOut.regime = "normal" <=> (~SpreadZGE(3, 2) /\ ~SpreadZLE(-1, 1))

\* C1 witnesses: z exactly 2.5 classified very_thin and z exactly 1.5 thin
C1_Witness ==
  /\ LiqDone
  /\ liqStats.std_spread_bps = Fin(2, 1)
  /\ NumSub(Fin(liqBook.spread_bps, 1), liqStats.mean_spread_bps) = Fin(5, 1)
  /\ liqOut.regime = "very_thin"

\* C2: with a baseline std of 0 the spread and depth z-scores of a completed
\* check are exactly 0; otherwise they are (value - mean) / std
C2_ZScoreZeroStd ==
  /\ zCall.called =>
       /\ zCall.std = 0 => zCall.out = Zero
       /\ zCall.std # 0 =>
            /\ IsFinite(zCall.out)
            /\ zCall.out.n * zCall.std = (zCall.value - zCall.mean) * zCall.out.d
  /\ LiqDone =>
    /\ liqStats.std_spread_bps = Zero => liqOut.spread_zscore = Zero
    /\ liqStats.std_depth = Zero => liqOut.depth_zscore = Zero
    /\ (IsFinite(liqStats.std_spread_bps) /\ liqStats.std_spread_bps # Zero) =>
         /\ IsFinite(liqOut.spread_zscore)
         /\ NumMul(liqOut.spread_zscore, liqStats.std_spread_bps)
              = NumSub(Fin(liqBook.spread_bps, 1), liqStats.mean_spread_bps)
    /\ (IsFinite(liqStats.std_depth) /\ liqStats.std_depth # Zero) =>
         /\ IsFinite(liqOut.depth_zscore)
         /\ NumMul(liqOut.depth_zscore, liqStats.std_depth)
              = NumSub(Fin(liqBook.bid_depth + liqBook.ask_depth, 1), liqStats.mean_depth)

\* C2 witness: a check against a flat baseline (std 0) whose spread is not the mean
C2_Witness ==
  /\ zCall.called
  /\ zCall.std = 0
  /\ zCall.value # zCall.mean
  /\ LiqDone
  /\ liqStats.std_spread_bps = Zero
  /\ liqStats.std_depth = Zero
  /\ Fin(liqBook.spread_bps, 1) # liqStats.mean_spread_bps
  /\ Fin(liqBook.bid_depth + liqBook.ask_depth, 1) # liqStats.mean_depth

\* a market with no history: getHistoricalStats answers the zero stats
NoBaseline ==
  /\ liqStats.mean_spread_bps = Zero
  /\ liqStats.std_spread_bps = Zero
  /\ liqStats.mean_depth = Zero
  /\ liqStats.std_depth = Zero

\* C8: a completed check against a market with no baseline reports regime
\* normal together with confidence low
C8_NoBaselineNormalLow ==
  (LiqDone /\ NoBaseline) =>
    /\ liqOut.regime = "normal"
    /\ "confidence" \in DOMAIN liqOut
    /\ liqOut.confidence = "low"

(***************************************************************************)
(* Properties of the statistics                                            *)
(***************************************************************************)
StatsComputed == statsOut.sample_count >= 0

AllZeroStats(st) ==
  /\ st.sample_count = 0
  /\ st.mean_spread_bps = Zero
  /\ st.median_spread_bps = Zero
  /\ st.std_spread_bps = Zero
  /\ st.p90_spread_bps = Zero
  /\ st.min_spread_bps = Zero
  /\ st.max_spread_bps = Zero

\* a predict call that holds the stats it built from its history
HasStats(c) == pred[c].pc \in {"books", "done"} /\ pred[c].market_id # ""

\* C3: statistics over an empty sample have count 0 and every statistic 0,
\* never NaN, in computeStats and in the per-market stats predict builds from an
\* empty history
C3_EmptySampleZeroStats ==
  /\ (StatsComputed /\ samples = <<>>) => AllZeroStats(statsOut)
  /\ \A c \in PredictCalls :
       (HasStats(c) /\ pred[c].hist = <<>>) =>
         /\ pred[c].stats.mean_spread_pct = Zero
         /\ pred[c].stats.std_spread_pct = Zero

C5_EveryBucketPresent ==
  /\ hourly # <<>> => (\A h \in 0..23 : h \in DOMAIN hourly)
  /\ daily # <<>> => (\A d \in 0..6 : d \in DOMAIN daily)
  /\ \A c \in PredictCalls :
       HasStats(c) =>
         /\ \A h \in 0..23 : h \in DOMAIN pred[c].stats.spread_by_hour
         /\ \A d \in 0..6 : d \in DOMAIN pred[c].stats.spread_by_dow

(***************************************************************************)
(* Properties of predict                                                   *)
(***************************************************************************)
Predicted(c) == pred[c].pc = "done" /\ pred[c].market_id # ""

\* hours from the hour nowHour to the next occurrence of the hour h: 1..24
HoursUntil(h, nowHour) ==
  IF (h - nowHour + 24) % 24 = 0 THEN 24 ELSE (h - nowHour + 24) % 24

NoCandidateFits(c) ==
  \A i \in 1..Len(pred[c].out.prediction.best_hours_est) :
    HoursUntil(pred[c].out.prediction.best_hours_est[i], getCurrentHourEST(pred[c].now))
      > pred[c].hours_ahead

\* C6: when no candidate hour has hoursUntil <= horizonHours the prediction
\* carries no window; in particular with a horizon of 0
C6_NoWindowBeyondHorizon ==
  \A c \in PredictCalls :
    (Predicted(c) /\ NoCandidateFits(c)) =>
      "next_likely_window" \notin DOMAIN pred[c].out.prediction

(***************************************************************************)
(* Properties of scanNow                                                   *)
(***************************************************************************)
ScanDone == scanPc = "done"

\* C7: the score of every opportunity is an integer in 0..100
C7_ScoreRange ==
  ScanDone =>
    \A i \in 1..Len(scanOut.opportunities) :
      /\ IsInteger(scanOut.opportunities[i].score)
      /\ scanOut.opportunities[i].score.n >= 0
      /\ scanOut.opportunities[i].score.n <= 100

\* C9: a scan that gets the arguments and the fetched data of an earlier scan
\* returns what that scan returned, whatever calls were made in between
C9_ScanDeterministic ==
  (ScanDone /\ scanPrev.seen /\ scanPrev.in = scanIn /\ scanPrev.log = scanLog) =>
    scanPrev.out = scanOut

PushedPairs == {scanLog[i].pair : i \in {j \in 1..Len(scanLog) : scanLog[j].outcome = "pushed"}}

\* C10: a failed fetch or fee analysis of one pair never makes the scan fail,
\* and a completed scan has evaluated every pair of the registry in order and
\* returns exactly the opportunities of the pairs that got through
C10_SkipAndContinue ==
  /\ scanPc = "failed" => (scanIdx = 0 /\ scanLog = <<>>)
  /\ ScanDone =>
       /\ Len(scanLog) = Len(MARKET_PAIRS)
       /\ \A i \in 1..Len(scanLog) : scanLog[i].pair = MARKET_PAIRS[i]
       /\ "opportunities" \in DOMAIN scanOut
       /\ {scanOut.opportunities[i].market_id : i \in 1..Len(scanOut.opportunities)}
            = PushedPairs
       /\ Len(scanOut.opportunities) = Cardinality(PushedPairs)

\* C10 witness: the first pair's fetch failed and the second pair is returned
C10_Witness ==
  /\ ScanDone
  /\ Len(scanLog) = 2
  /\ scanLog[1].outcome \in {"books_failed", "fees_failed"}
  /\ scanLog[2].outcome = "pushed"
  /\ Len(scanOut.opportunities) = 1
  /\ scanOut.opportunities[1].market_id = MARKET_PAIRS[2]

\* C11: the list a scan returns is ordered by non-increasing score, every
\* opportunity in it has gross spread >= min_spread_pct and net profit >=
\* min_net_profit_usd, no pair that was below a threshold is in it, and it is
\* no longer than total_scanned
C11_RankedAndFiltered ==
  ScanDone =>
    /\ \A i \in 1..(Len(scanOut.opportunities) - 1) :
         NumLEq(scanOut.opportunities[i + 1].score, scanOut.opportunities[i].score)
    /\ \A i \in 1..Len(scanOut.opportunities) :
         /\ NumLEq(Fin(scanIn.min_spread_pct, 1), scanOut.opportunities[i].gross_spread_pct)
         /\ NumLEq(Fin(scanIn.min_net_profit_usd, 1), scanOut.opportunities[i].net_profit_usd)
    /\ \A j \in 1..Len(scanLog) :
         scanLog[j].outcome \in {"below_spread", "below_profit"} =>
           \A i \in 1..Len(scanOut.opportunities) :
             scanOut.opportunities[i].market_id # scanLog[j].pair
    /\ Len(scanOut.opportunities) <= scanOut.total_scanned

\* C12: for a profile built from 168 hourly observations in which hour 3 always
\* has spread 400 and every other hour 100, the first ranked hour bucket is 3,
\* an observation at hour 3 with spread 400 is classified very_thin, and a
\* prediction made at hour 10 with a horizon of 24 hours is a window for hour 3
\* that starts exactly 17 hours later
C12_WeekScenario ==
  /\ \A c \in PredictCalls :
       (Predicted(c) /\ pred[c].hist \in WeekHistories) =>
         /\ pred[c].stats.best_hours[1] = 3
         /\ (getCurrentHourEST(pred[c].now) = 10 /\ pred[c].hours_ahead = 24) =>
              /\ pred[c].out.prediction.next_likely_window.reason_hour = 3
              /\ pred[c].out.prediction.next_likely_window.start = pred[c].now + 17
  /\ (LiqDone /\ liqStats \in WeekBaselines /\ liqBook.spread_bps = 400
        /\ liqOut.hour_est = 3) =>
       liqOut.regime = "very_thin"

(***************************************************************************)
(* Properties of analyzeArb                                                *)
(***************************************************************************)
ArbDone == arbPc = "done"

\* C15: the action of a completed analysis is EXECUTE only when the fee
\* analysis said is_profitable; when it did not the action is WAIT or SKIP,
\* for every gross spread
C15_ExecuteOnlyIfProfitable ==
  ArbDone =>
    /\ arbOut.action = "EXECUTE" => arbOut.is_profitable
    /\ ~arbOut.is_profitable => arbOut.action \in {"WAIT", "SKIP"}

\* C15 witness: a gross spread of 25% that the fees make unprofitable: WAIT
C15_Witness ==
  /\ ArbDone
  /\ ~arbOut.is_profitable
  /\ IsFinite(arbOut.gross_spread_pct)
  /\ NumGE(arbOut.gross_spread_pct, 3, 1)
  /\ arbOut.action = "WAIT"

\* the number of observations of the history of call c in the hour bucket of
\* the window it predicted
WindowSamples(c) ==
  Cardinality({i \in 1..Len(pred[c].hist) :
                 HourESTOfPoint(pred[c].hist[i])
                   = pred[c].out.prediction.next_likely_window.reason_hour})

\* C16: the confidence of a prediction is high when the hour bucket of its
\* window has more than 50 samples, medium when it has more than 20 and at
\* most 50, and low otherwise, also when the bucket has no sample or no entry
C16_ConfidenceBySampleCount ==
  \A c \in PredictCalls :
    Predicted(c) =>
      pred[c].out.prediction.next_likely_window.confidence =
        (IF WindowSamples(c) > 50 THEN "high"
         ELSE IF WindowSamples(c) > 20 THEN "medium"
         ELSE "low")

\* C16 witness: a window whose bucket has exactly 50 samples, confidence medium
C16_Witness ==
  \E c \in PredictCalls :
    /\ Predicted(c)
    /\ WindowSamples(c) = 50
    /\ pred[c].out.prediction.next_likely_window.confidence = "medium"

(***************************************************************************)
(* Properties of the external fetches                                      *)
(***************************************************************************)
\* C17: a checkLiquidity or predict call awaits each of its fetches at most
\* once; when a fetch rejects the call fails with that rejection, returns no
\* result and makes no later fetch; a call that returned made each of the
\* fetches on its path exactly once
C17_FetchFailurePropagates ==
  /\ liqFetches.orderbook <= 1
  /\ liqFetches.stats <= 1
  /\ liqPc = "done" => (liqFetches = [orderbook |-> 1, stats |-> 1] /\ "regime" \in DOMAIN liqOut)
  /\ liqPc = "failed" =>
       /\ liqOut \in {[error |-> "orderbook"], [error |-> "stats"]}
       /\ liqOut.error = "orderbook" => liqFetches = [orderbook |-> 1, stats |-> 0]
       /\ liqOut.error = "stats" => liqFetches = [orderbook |-> 1, stats |-> 1]
  /\ \A c \in PredictCalls :
       /\ pred[c].fetches.history <= 1
       /\ pred[c].fetches.books <= 1
       /\ Predicted(c) =>
            /\ pred[c].fetches.history = 1
            /\ pred[c].fetches.books = (IF InRegistry(pred[c].market_id) THEN 1 ELSE 0)
            /\ "prediction" \in DOMAIN pred[c].out
       /\ pred[c].pc = "failed" =>
            /\ pred[c].out \in {[error |-> "history"], [error |-> "books"]}
            /\ pred[c].out.error = "history" =>
                 pred[c].fetches = [history |-> 1, books |-> 0]
            /\ pred[c].out.error = "books" =>
                 pred[c].fetches = [history |-> 1, books |-> 1]

\* C17 witness: a checkLiquidity call failed by its second fetch and a predict
\* call failed by its second fetch
C17_Witness ==
  /\ liqPc = "failed"
  /\ liqOut.error = "stats"
  /\ \E c \in PredictCalls : pred[c].pc = "failed" /\ pred[c].out.error = "books"

\* the candidates of the prediction of call c that fit its horizon
FittingCandidates(c) ==
  {i \in 1..Len(pred[c].out.prediction.best_hours_est) :
     HoursUntil(pred[c].out.prediction.best_hours_est[i], getCurrentHourEST(pred[c].now))
       <= pred[c].hours_ahead}

\* C18: with hoursUntil = (h - nowHour + 24) mod 24, 0 replaced by 24, every
\* candidate hour has hoursUntil in 1..24, the next occurrence of every hour is
\* hoursUntil hours after now, and when some candidate has hoursUntil <=
\* horizonHours the window is that of the fitting candidate with the smallest
\* hoursUntil and starts hoursUntil hours after now
C18_SoonestFittingCandidate ==
  \A c \in PredictCalls :
    Predicted(c) =>
      LET cand    == pred[c].out.prediction.best_hours_est
          nowHour == getCurrentHourEST(pred[c].now)
          window  == pred[c].out.prediction.next_likely_window
      IN  /\ \A i \in 1..Len(cand) : HoursUntil(cand[i], nowHour) \in 1..24
          /\ \A h \in 0..23 :
               getNextOccurrence(h, pred[c].now) = pred[c].now + HoursUntil(h, nowHour)
          /\ FittingCandidates(c) # {} =>
               \E i \in FittingCandidates(c) :
                 /\ \A j \in FittingCandidates(c) :
                      HoursUntil(cand[i], nowHour) <= HoursUntil(cand[j], nowHour)
                 /\ window.reason_hour = cand[i]
                 /\ window.start = pred[c].now + HoursUntil(cand[i], nowHour)

\* C18 witness: three candidates fit, one of them is the current hour (24 hours
\* away), and the window is not that of the first candidate
C18_Witness ==
  \E c \in PredictCalls :
    /\ Predicted(c)
    /\ Cardinality(FittingCandidates(c)) = 3
    /\ \E i \in FittingCandidates(c) :
         pred[c].out.prediction.best_hours_est[i] = getCurrentHourEST(pred[c].now)
    /\ pred[c].out.prediction.next_likely_window.reason_hour
         # pred[c].out.prediction.best_hours_est[1]

\* bucket a is ranked before bucket b by mean, then sample count, then index
BeforeByMeanCountIndex(table, a, b) ==
  \/ NumLT(table[b].mean, table[a].mean)
  \/ /\ table[a].mean = table[b].mean
     /\ table[a].sample_count > table[b].sample_count
  \/ /\ table[a].mean = table[b].mean
     /\ table[a].sample_count = table[b].sample_count
     /\ a < b

\* bucket a is ranked before bucket b by mean, then index
BeforeByMeanIndex(table, a, b) ==
  \/ NumLT(table[b].mean, table[a].mean)
  \/ (table[a].mean = table[b].mean /\ a < b)

\* C19 as stated: the ranked hours and days are in descending order of mean,
\* equal means in descending order of sample count, and buckets equal in both
\* in ascending order of index
C19_RankByMeanCountIndex ==
  \A c \in PredictCalls :
    HasStats(c) =>
      /\ \A i, j \in 1..Len(pred[c].stats.best_hours) :
           i < j => BeforeByMeanCountIndex(pred[c].stats.spread_by_hour,
                      pred[c].stats.best_hours[i], pred[c].stats.best_hours[j])
      /\ \A i, j \in 1..Len(pred[c].stats.best_days) :
           i < j => BeforeByMeanCountIndex(pred[c].stats.spread_by_dow,
                      pred[c].stats.best_days[i], pred[c].stats.best_days[j])

\* C19 amended: the ranked hours and days are in descending order of mean and
\* buckets of equal mean in ascending order of index, whatever their counts
C19_RankByMeanIndex ==
  \A c \in PredictCalls :
    HasStats(c) =>
      /\ \A i, j \in 1..Len(pred[c].stats.best_hours) :
           i < j => BeforeByMeanIndex(pred[c].stats.spread_by_hour,
                      pred[c].stats.best_hours[i], pred[c].stats.best_hours[j])
      /\ \A i, j \in 1..Len(pred[c].stats.best_days) :
           i < j => BeforeByMeanIndex(pred[c].stats.spread_by_dow,
                      pred[c].stats.best_days[i], pred[c].stats.best_days[j])

\* C19 witness: two ranked hours of equal mean, the first with fewer samples
C19_Witness ==
  \E c \in PredictCalls :
    /\ HasStats(c)
    /\ Len(pred[c].stats.best_hours) = 2
    /\ pred[c].stats.spread_by_hour[pred[c].stats.best_hours[1]].mean
         = pred[c].stats.spread_by_hour[pred[c].stats.best_hours[2]].mean
    /\ pred[c].stats.spread_by_hour[pred[c].stats.best_hours[1]].sample_count
         < pred[c].stats.spread_by_hour[pred[c].stats.best_hours[2]].sample_count

\* C20: one timestamp gets the same hour and the same day of week from
\* spread-stats, from run-analysis and from the stats of predict, and the day of
\* week and the weekend flag are those of the calendar day of the timestamp
\* shifted to UTC-5
C20_OneTimezoneForAllKeys ==
  /\ \A i \in 1..Len(points) :
       /\ points[i].hour_of_day = getUTCHours(points[i].timestamp - 5)
       /\ points[i].day_of_week = getUTCDay(points[i].timestamp - 5)
       /\ points[i].is_weekend = (getUTCDay(points[i].timestamp - 5) \in {0, 6})
  /\ \A i \in 1..Len(points), j \in 1..Len(analysisData) :
       points[i].timestamp = analysisData[j].timestamp =>
         /\ points[i].hour_of_day = analysisData[j].hour
         /\ points[i].day_of_week = analysisData[j].dayOfWeek
  /\ \A c \in PredictCalls, j \in 1..Len(analysisData) :
       (/\ HasStats(c)
        /\ Len(pred[c].hist) = 1
        /\ pred[c].hist[1].timestamp = analysisData[j].timestamp) =>
         /\ DOMAIN pred[c].stats.spread_by_hour = {analysisData[j].hour}
         /\ DOMAIN pred[c].stats.spread_by_dow = {analysisData[j].dayOfWeek}

\* the sample counts of a table of stats, summed over its keys
CountsOf(table, last) == SumSeq([i \in 1..(last + 1) |-> table[i - 1].sample_count])

\* C21: the counts of the 24 hour buckets, of the 7 day buckets and of the
\* weekend and weekday groups each sum to the number of data points
C21_BucketsPartition ==
  /\ hourly # <<>> => CountsOf(hourly, 23) = Len(points)
  /\ daily # <<>> => CountsOf(daily, 6) = Len(points)
  /\ weekendWeekday # NotSplit =>
       weekendWeekday.weekend.sample_count + weekendWeekday.weekday.sample_count
         = Len(points)

\* C21 witness: three points in two hours and two days, one of them flagged
\* weekend, bucketed in all three ways
C21_Witness ==
  /\ Len(points) = 3
  /\ hourly # <<>>
  /\ weekendWeekday # NotSplit
  /\ hourly[0].sample_count = 1
  /\ hourly[23].sample_count = 2
  /\ daily[3].sample_count = 2
  /\ daily[6].sample_count = 1
  /\ weekendWeekday.weekend.sample_count = 1

\* C22: the hour of a data point and of a checkLiquidity result is the UTC hour
\* less 5 modulo 24, in 0..23; the day of week is in 0..6 and the weekend flag
\* is true exactly on days 0 and 6
C22_HourDayWeekendKeys ==
  /\ \A i \in 1..Len(points) :
       /\ points[i].hour_of_day = (getUTCHours(points[i].timestamp) + 19) % 24
       /\ points[i].hour_of_day \in 0..23
       /\ points[i].day_of_week \in 0..6
       /\ points[i].is_weekend = (points[i].day_of_week \in {0, 6})
  /\ liqPc = "done" =>
       /\ liqOut.hour_est = (getUTCHours(liqOut.timestamp) + 19) % 24
       /\ liqOut.hour_est \in 0..23
       /\ liqOut.is_weekend = (getUTCDay(liqOut.timestamp) \in {0, 6})

\* C22 witness: a Saturday 03:00Z snapshot bucketed at hour 22 and flagged
\* weekend, and a checkLiquidity result at Thursday 04:00Z with hour 23
C22_Witness ==
  /\ \E i \in 1..Len(points) :
       /\ points[i].timestamp = 51
       /\ points[i].hour_of_day = 22
       /\ points[i].is_weekend
  /\ liqPc = "done"
  /\ liqOut.timestamp = 4
  /\ liqOut.hour_est = 23
  /\ ~liqOut.is_weekend

\* C23: a value equal to the baseline mean scores 0, and 0 is regime normal;
\* the mean of a non-empty sample set scored against the stats of that sample
\* set gives z-score 0 and regime normal
C23_MeanScoresZero ==
  (zCall.called /\ zCall.value = zCall.mean) =>
    /\ zCall.out = Zero
    /\ computeRegime(zCall.out) = "normal"
    /\ "regime" \in DOMAIN zCall => zCall.regime = "normal"

\* C23 witness: the round trip over a sample set whose mean is not a whole
\* number and whose standard deviation is not 0
C23_Witness ==
  /\ zCall.called
  /\ "sample" \in DOMAIN zCall
  /\ zCall.sample = <<0, 1, 3>>
  /\ zCall.mean = Fin(4, 3)
  /\ zCall.std # Zero
  /\ zCall.out = Zero
  /\ zCall.regime = "normal"

\* C24: an opportunity of a market with no cached baseline is not scored on a
\* percentile of 50, and a prediction made from an empty history, or for an
\* hour with no bucket, carries no finite expected spread or percentile
C24_NoDefaultForMissingBaseline ==
  /\ ScanDone =>
       \A i \in 1..Len(scanOut.opportunities) :
         scanOut.opportunities[i].market_id \notin DOMAIN statsCache =>
           scanOut.opportunities[i].score
             # calculateScore(scanOut.opportunities[i].net_profit_pct, Fin(50, 1), 1000, 1000)
  /\ \A c \in PredictCalls :
       Predicted(c) =>
         /\ pred[c].hist = <<>> =>
              ~IsFinite(pred[c].out.prediction.spread_percentile)
         /\ pred[c].out.prediction.next_likely_window.reason_hour
              \notin DOMAIN pred[c].stats.spread_by_hour =>
              ~IsFinite(pred[c].out.prediction.next_likely_window.expected_spread_pct)

\* the number of sample values below v, and not above v
CountBelow(q, v) == Cardinality({i \in 1..Len(q) : q[i] < v})

CountUpTo(q, v) == Cardinality({i \in 1..Len(q) : q[i] <= v})

\* index floor(n * 9 / 10) clamped to 0..n-1
ClampedRank(n) ==
  IF (n * 9) \div 10 > n - 1 THEN n - 1 ELSE (n * 9) \div 10

\* C25: for a non-empty sample the reported p90 is a member of the sample, the
\* one at index floor(n * 0.9), clamped to 0..n-1, of the sample in ascending
\* order
C25_NearestRankPercentile ==
  (StatsComputed /\ samples # <<>>) =>
    /\ IsInteger(statsOut.p90_spread_bps)
    /\ \E i \in 1..Len(samples) : Fin(samples[i], 1) = statsOut.p90_spread_bps
    /\ CountBelow(samples, statsOut.p90_spread_bps.n) <= ClampedRank(Len(samples))
    /\ CountUpTo(samples, statsOut.p90_spread_bps.n) > ClampedRank(Len(samples))

\* C25 witness: a sample of 11 values whose p90, at index 9, is below the
\* largest value at index 10
C25_Witness ==
  /\ StatsComputed
  /\ Len(samples) = 11
  /\ statsOut.p90_spread_bps = Fin(0, 1)
  /\ statsOut.max_spread_bps = Fin(1, 1)

\* C26: the window of every prediction starts in the hour bucket it is reported
\* for, and that bucket is one of the top-ranked hours of the prediction
C26_WindowInReportedBucket ==
  \A c \in PredictCalls :
    Predicted(c) =>
      LET cand   == pred[c].out.prediction.best_hours_est
          window == pred[c].out.prediction.next_likely_window
      IN  /\ (getUTCHours(window.start) + 19) % 24 = window.reason_hour
          /\ \E i \in 1..Len(cand) : cand[i] = window.reason_hour

\* C27: the snapshot parsed from a Kalshi orderbook response has a spread and
\* a spread_bps that are not negative (best ask >= best bid, the mid between
\* them), and its bid_depth and ask_depth are the total quantities of the two
\* sides of the book, one each
C27_KalshiSnapshotSane ==
  kalshiCall.pc = "done" =>
    /\ NumLEq(Zero, kalshiCall.snapshot.spread)
    /\ NumLEq(Zero, kalshiCall.snapshot.spread_bps)
    /\ \/ /\ kalshiCall.snapshot.bid_depth = QuantityOf(kalshiCall.response.yes)
          /\ kalshiCall.snapshot.ask_depth = QuantityOf(kalshiCall.response.no)
       \/ /\ kalshiCall.snapshot.bid_depth = QuantityOf(kalshiCall.response.no)
          /\ kalshiCall.snapshot.ask_depth = QuantityOf(kalshiCall.response.yes)

\* the mid price a pair of books holds for a venue
PriceAt(books, venue) == IF venue = "KALSHI" THEN books.kalshi ELSE books.poly

\* the legs are one BUY and one SELL, on different venues, each at the price
\* of its venue, the BUY price not above the SELL price
LegsBuyLow(books) ==
  \E b, s \in 1..Len(books.legs) :
    /\ Len(books.legs) = 2
    /\ b # s
    /\ books.legs[b].direction = "BUY"
    /\ books.legs[s].direction = "SELL"
    /\ books.legs[b].venue # books.legs[s].venue
    /\ books.legs[b].price = PriceAt(books, books.legs[b].venue)
    /\ books.legs[s].price = PriceAt(books, books.legs[s].venue)
    /\ NumLEq(books.legs[b].price, books.legs[s].price)

\* the venue of the BUY leg
BuyLegVenue(books) ==
  (CHOOSE i \in 1..Len(books.legs) : books.legs[i].direction = "BUY")

\* C28: in every analyzeArb result and every opportunity of a scan, buy_venue
\* and sell_venue differ and the price on buy_venue is not above the price on
\* sell_venue; the legs sent to the fee oracle are BUY on the buy venue at the
\* lower price and SELL on the other venue at the higher price
C28_BuyLowSellHigh ==
  /\ arbPc \in {"fees", "done"} => LegsBuyLow(arbBooks)
  /\ ArbDone =>
       /\ arbOut.buy_venue # arbOut.sell_venue
       /\ {arbOut.buy_venue, arbOut.sell_venue} = Venues
       /\ NumLEq(PriceAt(arbBooks, arbOut.buy_venue), PriceAt(arbBooks, arbOut.sell_venue))
       /\ arbBooks.legs[BuyLegVenue(arbBooks)].venue = arbOut.buy_venue
  /\ scanPc = "fees" =>
       /\ LegsBuyLow(scanBooks)
       /\ scanBooks.legs[BuyLegVenue(scanBooks)].venue
            = buyVenueOf(scanBooks.kalshi, scanBooks.poly)
  /\ ScanDone =>
       \A i \in 1..Len(scanOut.opportunities) :
         LET o == scanOut.opportunities[i]
             prices == [kalshi |-> o.kalshi_price, poly |-> o.polymarket_price]
         IN  /\ o.buy_venue # o.sell_venue
             /\ {o.buy_venue, o.sell_venue} = Venues
             /\ NumLEq(PriceAt(prices, o.buy_venue), PriceAt(prices, o.sell_venue))

\* C28 witness: an analysis that buys on Kalshi, the cheaper venue, beside a
\* scan that reports an opportunity bought on Polymarket
C28_Witness ==
  /\ ArbDone
  /\ arbOut.buy_venue = "KALSHI"
  /\ NumLT(arbOut.kalshi_price, arbOut.polymarket_price)
  /\ ScanDone
  /\ \E i \in 1..Len(scanOut.opportunities) :
       /\ scanOut.opportunities[i].buy_venue = "POLYMARKET"
       /\ NumLT(scanOut.opportunities[i].polymarket_price,
                scanOut.opportunities[i].kalshi_price)

\* C29: the prediction a call returns is the one computed from the history
\* that call fetched, whatever the other calls wrote to the cache, and every
\* cache entry is the stats of a fetched history of its own market
C29_PredictionFromOwnHistory ==
  /\ \A c \in PredictCalls :
       Predicted(c) =>
         pred[c].out = predictOutput(pred[c].market_id, pred[c].hours_ahead,
                         computeMarketStats(pred[c].market_id, pred[c].hist),
                         pred[c].out.prediction.current_spread_pct, pred[c].now)
  /\ \A m \in DOMAIN statsCache :
       /\ statsCache[m].market_id = m
       /\ \E hist \in OverlapHistories : statsCache[m] = computeMarketStats(m, hist)

\* C29 witness: two calls about the same registered market have returned
\* different predictions from different histories, and the cache holds the
\* stats of the second only
C29_Witness ==
  /\ Predicted("p1")
  /\ Predicted("p2")
  /\ InRegistry(pred["p1"].market_id)
  /\ pred["p1"].market_id = pred["p2"].market_id
  /\ pred["p1"].hist # pred["p2"].hist
  /\ pred["p1"].out.prediction.avg_spread_pct # pred["p2"].out.prediction.avg_spread_pct
  /\ pred["p1"].fetches.books = 1
  /\ statsCache[pred["p1"].market_id] = pred["p2"].stats
  /\ scanPc = "fees"

-----------------------------------------------------------------------------
\* a predict call that was entered without a market_id
WithoutMarketId(c) == pred[c].pc # "idle" /\ pred[c].market_id = ""

\* C30: predict mode without a market_id returns a result with mode predict,
\* an error summary and no prediction; the call makes no fetch and does not
\* throw, and the step that makes it leaves the stats cache as it was
C30_MissingMarketIdIsAnErrorResult ==
  /\ [](\A c \in PredictCalls :
          WithoutMarketId(c) =>
            /\ pred[c].pc = "done"
            /\ pred[c].out.mode = "predict"
            /\ pred[c].out.summary = "error_market_id_required"
            /\ "prediction" \notin DOMAIN pred[c].out
            /\ pred[c].fetches = [history |-> 0, books |-> 0])
  /\ [][\A c \in PredictCalls :
          (pred'[c] # pred[c] /\ pred'[c].pc # "idle" /\ pred'[c].market_id = "")
            => statsCache' = statsCache]_vars

\* C30 witness: a call without a market_id has returned while the cache holds
\* the stats of an earlier call
C30_Witness ==
  \E c \in PredictCalls :
    /\ WithoutMarketId(c)
    /\ pred[c].pc = "done"
    /\ pred[c].out.summary = "error_market_id_required"
    /\ pred[c].hours_ahead > 0
    /\ DOMAIN statsCache # {}

====
